---- MODULE Spec2Model ----
(***************************************************************************)
(* manganese_core: the parallel SIMD pattern engine.                       *)
(*                                                                         *)
(* run_tests (lib.rs) acquires a locked buffer, binds the test list and    *)
(* loops over the tests; each test's kernel (tests_avx2.rs,                *)
(* tests_avx512.rs) is a sequence of fork-join sweeps; each sweep gives    *)
(* one work item per CPU, and a work item is a loop of vector stores (set) *)
(* or vector load-and-compare steps (get).                                 *)
(*                                                                         *)
(* Byte offsets, sizes and vector contents are modelled exactly: a vector  *)
(* is a function from 1..W to bytes, the buffer is a function from slot    *)
(* numbers (offset \div W) to vectors.                                     *)
(***************************************************************************)
EXTENDS Integers, Sequences, FiniteSets, TLC

(***************************************************************************)
(* Bounds of the model                                                     *)
(***************************************************************************)
\* logical CPUs reported by hardware_cpu_count: 1..MaxCpus
MaxCpus == 3
\* the page size reported by getpagesize is W * m, m in 1..MaxPageMul
MaxPageMul == 1
\* the caller's ram_bytes is b * BACKOFF + u * W256, u in 0..MaxReqUnits
MaxReqUnits == 4
\* ... with b in 0..MaxBackoffSteps
MaxBackoffSteps == 1
\* the operating system never hands out and locks more than this many bytes
MaxLockable == 128
\* SpecAcq: the caller's ram_bytes is u * AcqReqUnit, u in 0..MaxAcqReqUnits
MaxAcqReqUnits == 6
\* SpecSweep: each worker's chunk holds 1..MaxChunkSlots vectors
MaxChunkSlots == 2
\* SpecFault: the number of RAM faults injected into the buffer
MaxFaults == 2
\* the config file selects 1..MaxEntries tests
MaxEntries == 2
\* SpecStop: logical CPUs 1..MaxStopCpus
MaxStopCpus == 1
\* SpecFault: logical CPUs 1..MaxFaultCpus
MaxFaultCpus == 2
\* the front end starts run_tests again while fewer than MaxLive buffers of
\* the process are live
MaxLive == 2
\* SpecBind: configuration files of 1..MaxBindLen test lines
MaxBindLen == 2
\* calls of the generator made on its own
MaxCalls == 4
\* SpecLoop: configuration files of 1..MaxLoopLen tests
MaxLoopLen == 2
\* the operating system places a block at 1..MaxRawSlots allocation
\* granules
MaxRawSlots == 3
\* the longest SMBIOS table walked
MaxTableLen == 7

(***************************************************************************)
(* Program constants                                                       *)
(***************************************************************************)
\* lib.rs:92  const BACKOFF: usize = 256 * 1024 * 1024
BACKOFF == 256 * 1024 * 1024
\* tests_avx2.rs: the step of every loop and the width of __m256i
W256 == 32
\* tests_avx512.rs: the step of every loop and the width of __m512i
W512 == 64
\* the page size of x86-64 Linux and Windows (getpagesize)
RealPageSize == 4096
\* SpecAcq request granule: 100 MB (the size-spec suffix "M" of parse_ram_spec)
AcqReqUnit == 100 * 1000 * 1000

NoLog == [kind |-> "none"]

VARIABLES
  \* ---- inputs of one process: the hardware, the caller, the config file
  isa,          \* hardware_instruction_set(): "SSE", "AVX2" or "AVX512"
  cpu_count,    \* hardware_cpu_count()
  pagesize,     \* getpagesize()
  req,          \* the ram_bytes argument of run_tests
  conf,         \* the file manganese.conf: [exists, lines]
  avx512f,      \* the build enables target_feature = "avx512f"
  platform,     \* "unix" or "windows": the platform layer compiled in
  os_raw,       \* the address at which the operating system places a block
  stop_signal,  \* the caller's AtomicBool
  memlock,      \* the most bytes the operating system will allocate and lock
  \* ---- run_tests
  pc,           \* the position of the thread that runs run_tests
  ram_bytes,    \* the shadowed ram_bytes (rounded down to alignment)
  alignment,    \* cpu_count * getpagesize()
  acq_i,        \* i of the acquisition loop (lib.rs:96)
  mem,          \* "none" or "some": Option<*mut u8>
  size,         \* the accepted size
  tried,        \* the sizes passed to aligned_alloc by this call, in order
  live,         \* allocations of the process not yet freed
  pinned,       \* the operating system's lock call succeeded for mem
  ptr,          \* the last non-null return of aligned_alloc: [addr, raw, len]
  entries,      \* load_custom_config(..).unwrap_or_else(..): <<[kind, loops]>>
  test_config,  \* build_tests_from_config's result
  test_idx,     \* position of `for test in &test_config` (1-based)
  loop_i,       \* i of `for i in 1..(test.loops+1)`
  \* ---- the kernel in progress
  prog,         \* [kernel |-> name, sweeps |-> <<...>>]
  sweep,        \* index of the sweep in progress (1-based)
  wst,          \* work item i of the sweep: "idle", "run", "done"
  wj,           \* j of work item i
  wsw,          \* the sweep work item i was dispatched for
  buf,          \* the buffer: slot -> vector
  \* ---- process-wide
  ERRORS,       \* pub static ERRORS: AtomicU64
  log,          \* the last error! line of get: NoLog or [kind, idx, ...]
  \* ---- history (not read by the program)
  acc,          \* the last vector access: [op, idx, w] or [op |-> "none"]
  touched,      \* <<idx, worker>> of every access of the sweep in progress
  dups,         \* some offset was accessed twice in the sweep in progress
  unfenced,     \* slots stored to with no store fence by the storing thread since
  errSum,       \* the sum of all increments requested of ERRORS
  seenStop,     \* some stop check of this run has read the flag as set
  afterSeen,    \* a kernel was started after seenStop
  afterSet,     \* kernel invocations started since the flag was set (cap 2)
  faults,       \* RAM faults injected so far
  \* ---- the pattern generator
  rdrand,       \* <<r1, r2>>: the pair the _rdrand64_step loop ends with
  RNG,          \* static mut RNG: [part1, part2], one u64 per element
  ref,          \* history: the scalar generator [s0, s1] started from rdrand
  calls,        \* history: calls of the generator since *_tests_init
  drawn,        \* history: the last values returned, [lane0, ref]
  lines,        \* history: the info! lines and the kernel invocations of the
                \* outer iteration in progress, in order
  \* ---- collect_system_info (hardware.rs)
  table,        \* the raw SMBIOS table bytes load_smbios_table returned
  walk          \* the structure walk: [phase, offset, iters, board, reads]

hw    == <<isa, cpu_count, pagesize, req, conf, memlock, avx512f, platform,
           os_raw>>
acqv  == <<ram_bytes, alignment, acq_i, mem, size, tried, live, pinned, ptr>>
loopv == <<entries, test_config, test_idx, loop_i>>
kernv == <<prog, sweep, wst, wj, wsw>>
hist  == <<acc, touched, dups, unfenced>>
stopv == <<seenStop, afterSeen, afterSet>>
rngv  == <<rdrand, RNG, ref, calls, drawn>>
smbv  == <<table, walk>>
vars  == <<isa, cpu_count, pagesize, req, conf, memlock, avx512f, platform,
           stop_signal, pc, ram_bytes, alignment, acq_i, mem, size, tried,
           live, pinned, entries, test_config, test_idx, loop_i, prog, sweep,
           wst, wj, wsw, buf, ERRORS, log, acc, touched, dups, unfenced,
           errSum, seenStop, afterSeen, afterSet, faults, rdrand, RNG, ref,
           calls, drawn, lines, os_raw, ptr, table, walk>>

(***************************************************************************)
(* Vectors                                                                 *)
(***************************************************************************)
Byte == 0..255

\* the vector width of the instruction set
Width(set) == IF set = "AVX512" THEN W512 ELSE W256

\* !b of a byte
NotByte(b) == 255 - b

\* _mm256_set1_epi8 / _mm512_set1_epi8: the 64-bit lane of a byte splat
Lane8(b) == [k \in 1..8 |-> b]

\* ~pattern, byte by byte
NotLane(lane) == [k \in DOMAIN lane |-> NotByte(lane[k])]

\* the w-byte vector that repeats `lane`: the 8 bytes of a splat lane, or
\* all w bytes of a vector whose lanes differ
VecOf(lane, w) == [k \in 1..w |-> lane[((k - 1) % Len(lane)) + 1]]

\* the byte positions at which two vectors differ
DiffBytes(a, b, w) == {k \in 1..w : a[k] # b[k]}

(***************************************************************************)
(* Primitive kernels: set and get                                          *)
(***************************************************************************)
\* AtomicU64::fetch_add(n, Relaxed): one indivisible read-modify-write.
\* A variant that stores the increment instead of adding it.
FetchAddStore(cur, n) == n

FetchAdd(cur, n) == cur + n

\* _mm256_cmpeq_epi8(a, b): 0xFF in every byte where a and b agree, else 0
CmpEqEpi8(a, b, w) == [k \in 1..w |-> IF a[k] = b[k] THEN 255 ELSE 0]

\* _mm256_testz_si256(a, a): 1 when a AND a is all zero, else 0
TestZ(a, w) == IF \A k \in 1..w : a[k] = 0 THEN 1 ELSE 0

\* _mm512_cmp_epu8_mask(a, b, _MM_CMPINT_NE): the set of byte positions
\* (bits of the 64-bit mask) at which a and b differ
CmpNeMask(a, b, w) == {k \in 1..w : a[k] # b[k]}

\* A wide-256 get with the polarity of the legacy revision (result == 0).
Avx2GetInverted(actual, idx, expected) ==
  LET cmp    == CmpEqEpi8(expected, actual, W256)
      result == TestZ(cmp, W256)
  IN  IF result = 0
        THEN [inc |-> 1, line |-> [kind |-> "errors", idx |-> idx]]
        ELSE [inc |-> 0, line |-> NoLog]

\* tests_avx2.rs get: what it adds to ERRORS and the line it logs
Avx2Get(actual, idx, expected) ==
  LET cmp    == CmpEqEpi8(expected, actual, W256)
      result == TestZ(cmp, W256)
  IN  IF result # 0
        THEN [inc |-> 1, line |-> [kind |-> "errors", idx |-> idx]]
        ELSE [inc |-> 0, line |-> NoLog]

\* legacy CLI revision (src/src/tests_avx2.rs) of get: result is the i32 0
\* inside the branch, !result is -1, `as u64` sign-extends it to 64 one bits
LegacyAvx2Get(actual, idx, expected) ==
  LET cmp    == CmpEqEpi8(expected, actual, W256)
      result == TestZ(cmp, W256)
  IN  IF result = 0
        THEN [inc |-> 64, line |-> [kind |-> "errors", idx |-> idx]]
        ELSE [inc |-> 0, line |-> NoLog]

\* A wide-512 get that counts one error per miscompared vector.
Avx512GetPerVector(actual, idx, expected) ==
  LET result == CmpNeMask(expected, actual, W512)
  IN  IF result # {}
        THEN [inc |-> 1,
              line |-> [kind |-> "errors", idx |-> idx, mask |-> result]]
        ELSE [inc |-> 0, line |-> NoLog]

\* tests_avx512.rs get: count_ones of the mask, logged with offset and mask
Avx512Get(actual, idx, expected) ==
  LET result == CmpNeMask(expected, actual, W512)
  IN  IF result # {}
        THEN [inc |-> Cardinality(result),
              line |-> [kind |-> "errors", idx |-> idx, mask |-> result]]
        ELSE [inc |-> 0, line |-> NoLog]

\* get of the instruction set in use
Get(set, actual, idx, expected) ==
  IF set = "AVX512" THEN Avx512Get(actual, idx, expected)
                    ELSE Avx2Get(actual, idx, expected)

\* set: _mm256_stream_si256 / _mm512_stream_si512 of val at offset idx
Set(b, idx, val, w) == [b EXCEPT ![idx \div w] = val]

(***************************************************************************)
(* Catalog and config binder                                               *)
(***************************************************************************)
TestKinds ==
  {"BasicTests", "RandomInversions", "MovingInversionsLeft64",
   "MovingInversionsRight32", "MovingInversionsLeft16",
   "MovingInversionsRight8", "MovingInversionsLeft4",
   "MovingSaturationsRight16", "MovingSaturationsLeft8", "Walking1",
   "Walking0", "Checkerboard", "AntiPatterns", "InverseDataPatterns"}

Def(n, p, it, l, k) ==
  [name |-> n, passes |-> p, iters |-> it, loops |-> l, run |-> k]

\* avx2_definitions(): `run` names the kernel by its TestKind
avx2_definitions ==
  [k \in TestKinds |->
    CASE k = "BasicTests"               -> Def("basic_tests", 4, 6, 1, k)
      [] k = "RandomInversions"         -> Def("random_inversions", 4, 16, 1, k)
      [] k = "MovingInversionsLeft64"   -> Def("moving_inversions_left_64", 4, 64, 1, k)
      [] k = "MovingInversionsRight32"  -> Def("moving_inversions_right_32", 4, 32, 1, k)
      [] k = "MovingInversionsLeft16"   -> Def("moving_inversions_left_16", 4, 16, 1, k)
      [] k = "MovingInversionsRight8"   -> Def("moving_inversions_right_8", 4, 8, 1, k)
      [] k = "MovingInversionsLeft4"    -> Def("moving_inversions_left_4", 4, 4, 1, k)
      [] k = "MovingSaturationsRight16" -> Def("moving_saturations_right_16", 8, 16, 1, k)
      [] k = "MovingSaturationsLeft8"   -> Def("moving_saturations_left_8", 8, 8, 1, k)
      [] k = "Walking1"                 -> Def("walking1", 4, 64, 1, k)
      [] k = "Walking0"                 -> Def("walking0", 4, 64, 1, k)
      [] k = "Checkerboard"             -> Def("checkerboard", 4, 1, 8, k)
      [] k = "AntiPatterns"             -> Def("anti_patterns", 8, 34, 1, k)
      [] k = "InverseDataPatterns"      -> Def("inverse_data_patterns", 4, 14, 1, k)]

\* avx512_definitions()
avx512_definitions ==
  [k \in TestKinds |->
    CASE k = "BasicTests"               -> Def("basic_tests", 4, 6, 1, k)
      [] k = "RandomInversions"         -> Def("random_inversions", 4, 16, 1, k)
      [] k = "MovingInversionsLeft64"   -> Def("moving_inversions_left_64", 4, 64, 1, k)
      [] k = "MovingInversionsRight32"  -> Def("moving_inversions_right_32", 4, 32, 1, k)
      [] k = "MovingInversionsLeft16"   -> Def("moving_inversions_left_16", 4, 16, 1, k)
      [] k = "MovingInversionsRight8"   -> Def("moving_inversions_right_8", 4, 8, 1, k)
      [] k = "MovingInversionsLeft4"    -> Def("moving_inversions_left_4", 4, 4, 1, k)
      [] k = "MovingSaturationsRight16" -> Def("moving_saturations_right_16", 8, 16, 1, k)
      [] k = "MovingSaturationsLeft8"   -> Def("moving_saturations_left_8", 8, 8, 1, k)
      [] k = "Walking1"                 -> Def("walking1", 4, 64, 1, k)
      [] k = "Walking0"                 -> Def("walking0", 4, 64, 1, k)
      [] k = "Checkerboard"             -> Def("checkerboard", 4, 1, 8, k)
      [] k = "AntiPatterns"             -> Def("anti_patterns", 8, 34, 1, k)
      [] k = "InverseDataPatterns"      -> Def("inverse_data_patterns", 4, 14, 1, k)]

\* the keys of the map `defs` of build_tests_from_config
DefsKeys(set) == IF set \in {"AVX2", "AVX512"} THEN TestKinds ELSE {}
DefsOf(set) == IF set = "AVX512" THEN avx512_definitions ELSE avx2_definitions

\* Option<usize>: None
NoneLoops == -1

\* the bytes of a test name (UTF-8, all ASCII)
NameBytes(n) ==
  CASE n = "basic_tests" ->
         <<98, 97, 115, 105, 99, 95, 116, 101, 115, 116, 115>>
    [] n = "random_inversions" ->
         <<114, 97, 110, 100, 111, 109, 95, 105, 110, 118, 101, 114, 115, 105, 111, 110, 115>>
    [] n = "moving_inversions_left_64" ->
         <<109, 111, 118, 105, 110, 103, 95, 105, 110, 118, 101, 114, 115, 105, 111, 110, 115, 95, 108, 101, 102, 116, 95, 54, 52>>
    [] n = "moving_inversions_right_32" ->
         <<109, 111, 118, 105, 110, 103, 95, 105, 110, 118, 101, 114, 115, 105, 111, 110, 115, 95, 114, 105, 103, 104, 116, 95, 51, 50>>
    [] n = "moving_inversions_left_16" ->
         <<109, 111, 118, 105, 110, 103, 95, 105, 110, 118, 101, 114, 115, 105, 111, 110, 115, 95, 108, 101, 102, 116, 95, 49, 54>>
    [] n = "moving_inversions_right_8" ->
         <<109, 111, 118, 105, 110, 103, 95, 105, 110, 118, 101, 114, 115, 105, 111, 110, 115, 95, 114, 105, 103, 104, 116, 95, 56>>
    [] n = "moving_inversions_left_4" ->
         <<109, 111, 118, 105, 110, 103, 95, 105, 110, 118, 101, 114, 115, 105, 111, 110, 115, 95, 108, 101, 102, 116, 95, 52>>
    [] n = "moving_saturations_right_16" ->
         <<109, 111, 118, 105, 110, 103, 95, 115, 97, 116, 117, 114, 97, 116, 105, 111, 110, 115, 95, 114, 105, 103, 104, 116, 95, 49, 54>>
    [] n = "moving_saturations_left_8" ->
         <<109, 111, 118, 105, 110, 103, 95, 115, 97, 116, 117, 114, 97, 116, 105, 111, 110, 115, 95, 108, 101, 102, 116, 95, 56>>
    [] n = "walking1" ->
         <<119, 97, 108, 107, 105, 110, 103, 49>>
    [] n = "walking0" ->
         <<119, 97, 108, 107, 105, 110, 103, 48>>
    [] n = "checkerboard" ->
         <<99, 104, 101, 99, 107, 101, 114, 98, 111, 97, 114, 100>>
    [] n = "anti_patterns" ->
         <<97, 110, 116, 105, 95, 112, 97, 116, 116, 101, 114, 110, 115>>
    [] n = "inverse_data_patterns" ->
         <<105, 110, 118, 101, 114, 115, 101, 95, 100, 97, 116, 97, 95, 112, 97, 116, 116, 101, 114, 110, 115>>

\* str's Ord: lexicographic on the bytes, a proper prefix is smaller
LexLess(a, b) ==
  \E k \in 1..Len(b) :
    /\ \A j \in 1..(k - 1) : j <= Len(a) /\ a[j] = b[j]
    /\ k > Len(a) \/ a[k] < b[k]

\* the variants of TestKind in declaration order
KindOrder ==
  <<"BasicTests", "RandomInversions", "MovingInversionsLeft64",
    "MovingInversionsRight32", "MovingInversionsLeft16", "MovingInversionsRight8",
    "MovingInversionsLeft4", "MovingSaturationsRight16", "MovingSaturationsLeft8",
    "Walking1", "Walking0", "Checkerboard",
    "AntiPatterns", "InverseDataPatterns">>

Rotate(q, r) == [n \in 1..Len(q) |-> q[((n - 1 + r) % Len(q)) + 1]]
Reverse(q) == [n \in 1..Len(q) |-> q[Len(q) + 1 - n]]

\* HashMap iteration orders: std's hasher is seeded per process, so values()
\* may walk the keys in any order; the rotations of the declaration order
\* and their reversals stand for them
HashOrders ==
  {Rotate(KindOrder, r) : r \in 0..(Len(KindOrder) - 1)}
    \cup {Reverse(Rotate(KindOrder, r)) : r \in 0..(Len(KindOrder) - 1)}

\* defs.values().cloned().collect() under one iteration order
Values(set, order) == [n \in 1..Len(order) |-> DefsOf(set)[order[n]]]

\* insertion of d behind the last element that is not greater (stable)
RECURSIVE InsertByName(_, _)
InsertByName(sorted, d) ==
  IF sorted = <<>> THEN <<d>>
  ELSE IF LexLess(NameBytes(d.name), NameBytes(Head(sorted).name))
    THEN <<d>> \o sorted
    ELSE <<Head(sorted)>> \o InsertByName(Tail(sorted), d)

\* the first n elements of ds, sorted
RECURSIVE SortFrom(_, _)
SortFrom(ds, n) ==
  IF n = 0 THEN <<>> ELSE InsertByName(SortFrom(ds, n - 1), ds[n])

\* A collect that leaves the values in iteration order.
KeepIterationOrder(ds) == ds

\* list.sort_by_key(|d| d.name): a stable sort by name
sort_by_key(ds) == SortFrom(ds, Len(ds))

\* A binder that copies the catalog definition and drops the entry's loops.
RECURSIVE BindIgnoringLoops(_, _)
BindIgnoringLoops(es, set) ==
  IF es = <<>> THEN <<>>
  ELSE IF Head(es).kind \in DefsKeys(set)
    THEN <<DefsOf(set)[Head(es).kind]>> \o BindIgnoringLoops(Tail(es), set)
    ELSE BindIgnoringLoops(Tail(es), set)

RECURSIVE BindEntries(_, _)
BindEntries(es, set) ==
  IF es = <<>> THEN <<>>
  ELSE LET entry == Head(es)
           rest  == BindEntries(Tail(es), set)
       IN  IF entry.kind \in DefsKeys(set)
             THEN LET def == DefsOf(set)[entry.kind]
                  IN  <<[def EXCEPT !.loops =
                           IF entry.loops = NoneLoops THEN def.loops
                                                      ELSE entry.loops]>>
                      \o rest
             ELSE rest

build_tests_from_config(es, set, order) ==
  IF es = <<>>
    THEN IF DefsKeys(set) = {} THEN <<>>
         ELSE sort_by_key(Values(set, order))
    ELSE BindEntries(es, set)

(***************************************************************************)
(* The configuration file.  A line is a comment or a sequence of           *)
(* whitespace-separated tokens (none: a blank line); a token is given by   *)
(* what strip_prefix("loops=") makes of it: with pre = "loops=" its        *)
(* remainder as characters, otherwise the whole token as one word.         *)
(***************************************************************************)
DefNames == {avx2_definitions[k].name : k \in TestKinds}

\* A parser that confuses two names.
parseSwapped(t) ==
  CASE t = "walking1" -> "Walking0"
    [] t = "walking0" -> "Walking1"
    [] t \in DefNames -> (CHOOSE k \in TestKinds : avx2_definitions[k].name = t)
    [] OTHER -> "None"

\* TestKind::parse; "None" is Option::None
parse(t) ==
  CASE t = "basic_tests" -> "BasicTests"
    [] t = "random_inversions" -> "RandomInversions"
    [] t = "moving_inversions_left_64" -> "MovingInversionsLeft64"
    [] t = "moving_inversions_right_32" -> "MovingInversionsRight32"
    [] t = "moving_inversions_left_16" -> "MovingInversionsLeft16"
    [] t = "moving_inversions_right_8" -> "MovingInversionsRight8"
    [] t = "moving_inversions_left_4" -> "MovingInversionsLeft4"
    [] t = "moving_saturations_right_16" -> "MovingSaturationsRight16"
    [] t = "moving_saturations_left_8" -> "MovingSaturationsLeft8"
    [] t = "walking1" -> "Walking1"
    [] t = "walking0" -> "Walking0"
    [] t = "checkerboard" -> "Checkerboard"
    [] t = "anti_patterns" -> "AntiPatterns"
    [] t = "inverse_data_patterns" -> "InverseDataPatterns"
    [] OTHER -> "None"

Word(w) == [pre |-> "", word |-> w, chars |-> <<>>]
LoopsTok(cs) == [pre |-> "loops=", word |-> "", chars |-> cs]
Line(ts) == [comment |-> FALSE, tokens |-> ts]
CommentLine == [comment |-> TRUE, tokens |-> <<>>]
NoFile == [exists |-> FALSE, lines |-> <<>>]
File(ls) == [exists |-> TRUE, lines |-> ls]

Digits == <<"0", "1", "2", "3", "4", "5", "6", "7", "8", "9">>
DigitValue(c) == (CHOOSE n \in 1..Len(Digits) : Digits[n] = c) - 1
IsDigit(c) == \E n \in 1..Len(Digits) : Digits[n] = c

RECURSIVE DecimalValue(_, _)
DecimalValue(cs, v) ==
  IF cs = <<>> THEN v ELSE DecimalValue(Tail(cs), 10 * v + DigitValue(Head(cs)))

\* str::parse::<usize>: an optional '+', then one or more decimal digits
\* (values are kept far below usize::MAX)
ParseUsize(cs) ==
  LET ds == IF cs # <<>> /\ Head(cs) = "+" THEN Tail(cs) ELSE cs
  IN  IF ds # <<>> /\ \A n \in 1..Len(ds) : IsDigit(ds[n])
        THEN [ok |-> TRUE, val |-> DecimalValue(ds, 0)]
        ELSE [ok |-> FALSE, val |-> 0]

Ok(list) == [ok |-> TRUE, err |-> "", list |-> list]
Err(e) == [ok |-> FALSE, err |-> e, list |-> <<>>]

\* the `for tok in tokens` loop: the last loops= wins
RECURSIVE ParseTokens(_, _)
ParseTokens(ts, loops) ==
  IF ts = <<>> THEN [ok |-> TRUE, err |-> "", loops |-> loops]
  ELSE IF Head(ts).pre = "loops="
    THEN LET v == ParseUsize(Head(ts).chars)
         IN  IF v.ok THEN ParseTokens(Tail(ts), v.val)
                     ELSE [ok |-> FALSE, err |-> "Invalid loops value",
                           loops |-> loops]
    ELSE [ok |-> FALSE, err |-> "Unknown token", loops |-> loops]

\* the first token of a line as the text TestKind::parse receives
TokenText(t) == IF t.pre = "" THEN t.word ELSE "loops=..."

RECURSIVE ParseLines(_, _)
ParseLines(ls, list) ==
  IF ls = <<>> THEN Ok(list)
  ELSE LET line == Head(ls)
       IN  IF line.comment \/ line.tokens = <<>>
             THEN ParseLines(Tail(ls), list)
           ELSE LET kind == parse(TokenText(Head(line.tokens)))
                    rest == ParseTokens(Tail(line.tokens), NoneLoops)
                IN  IF kind = "None" THEN Err("Unknown test")
                    ELSE IF ~rest.ok THEN Err(rest.err)
                    ELSE ParseLines(Tail(ls),
                           Append(list, [kind |-> kind, loops |-> rest.loops]))

load_custom_config(file) ==
  IF ~file.exists THEN Err("io") ELSE ParseLines(file.lines, <<>>)

\* .unwrap_or_else(|_| vec![]): any Err becomes the empty list
UnwrapOrDefault(r) == IF r.ok THEN r.list ELSE <<>>

\* the file a well-formed entry list is read from
LineOf(e) ==
  Line(IF e.loops = NoneLoops
         THEN <<Word(avx2_definitions[e.kind].name)>>
         ELSE <<Word(avx2_definitions[e.kind].name),
                LoopsTok(<<Digits[e.loops + 1]>>)>>)
FileOf(es) == File([n \in 1..Len(es) |-> LineOf(es[n])])

(***************************************************************************)
(* 64-bit lanes as sets of bit positions (bit 0 is the least significant   *)
(* bit of byte 1 of the lane), and the vector intrinsics on them.          *)
(***************************************************************************)
Bits64 == 0..63

\* the set bits of a constant below 2^31
BitsOf(v) == {b \in 0..30 : (v \div (2 ^ b)) % 2 = 1}

\* _mm256_set1_epi64x / _mm512_set1_epi64
Set1Epi64x(x) == x \cap Bits64
\* _mm256_set1_epi32: the 32-bit value in both halves of the lane
Set1Epi32(x) == {b + 32 * j : b \in x \cap (0..31), j \in 0..1}
\* _mm256_set1_epi16
Set1Epi16(x) == {b + 16 * j : b \in x \cap (0..15), j \in 0..3}
\* _mm256_set1_epi8 of a value given by its bits
Set1Epi8(x) == {b + 8 * j : b \in x \cap (0..7), j \in 0..7}

\* u64 << n and >> n
Shl64(x, n) == {b + n : b \in x} \cap Bits64
Shr64(x, n) == {b - n : b \in x} \cap Bits64

\* _mm256_slli_epi64::<i> / _mm256_srli_epi64::<i>: each 64-bit element
SlliEpi64(x, i) == Shl64(x, i)
SrliEpi64(x, i) == Shr64(x, i)

\* _mm256_srli_epi16::<i>: each 16-bit element shifts on its own, zeros
\* come in from the left
SrliEpi16(x, i) == {b - i : b \in {c \in x : c % 16 >= i}}

\* the bytes of a lane, little endian
BitWeight(x, n, b) == IF n \in x THEN 2 ^ b ELSE 0
ByteOfBits(x, k) ==
  LET base == 8 * (k - 1)
  IN  BitWeight(x, base, 0) + BitWeight(x, base + 1, 1)
      + BitWeight(x, base + 2, 2) + BitWeight(x, base + 3, 3)
      + BitWeight(x, base + 4, 4) + BitWeight(x, base + 5, 5)
      + BitWeight(x, base + 6, 6) + BitWeight(x, base + 7, 7)
LaneOfBits(x) == [k \in 1..8 |-> ByteOfBits(x, k)]

(***************************************************************************)
(* Pattern library: a kernel is a sequence of sweeps.  A sweep stores or   *)
(* verifies, per slot, the lane `odd` where (idx / W) % 2 != 0 and the     *)
(* lane `even` elsewhere (the two agree for all kernels but checkerboard). *)
(***************************************************************************)
Sw(op, dir, odd, even) == [op |-> op, dir |-> dir, odd |-> odd, even |-> even]

set_all_up(lane)   == Sw("set", "up", lane, lane)
get_all_up(lane)   == Sw("get", "up", lane, lane)
set_all_down(lane) == Sw("set", "down", lane, lane)
get_all_down(lane) == Sw("get", "down", lane, lane)

BasicPatterns == <<0, 255, 15, 240, 85, 170>>

RECURSIVE basic_tests_from(_)
basic_tests_from(n) ==
  IF n > Len(BasicPatterns) THEN <<>>
  ELSE LET pattern == Lane8(BasicPatterns[n])
       IN  <<set_all_up(pattern), get_all_up(pattern),
             set_all_down(pattern), get_all_down(pattern)>>
           \o basic_tests_from(n + 1)

\* avx2_basic_tests / avx512_basic_tests
basic_tests == basic_tests_from(1)

\* avx2_checkerboard / avx512_checkerboard
checkerboard ==
  LET pattern1 == Lane8(170)
      pattern2 == Lane8(85)
  IN  <<Sw("set", "up", pattern1, pattern2), Sw("get", "up", pattern1, pattern2),
        Sw("set", "up", pattern2, pattern1), Sw("get", "up", pattern2, pattern1)>>

\* `for i in 0..n { body[i] }` where body[i] is a sequence of m sweeps
ForRange(body, n, m) ==
  [s \in 1..(n * m) |-> body[(s - 1) \div m][((s - 1) % m) + 1]]

\* set_all_up(p); get_all_up(p); set_all_up(!p); get_all_up(!p)
InversionPass(pattern) ==
  LET not_pattern == NotLane(pattern)
  IN  <<set_all_up(pattern), get_all_up(pattern),
        set_all_up(not_pattern), get_all_up(not_pattern)>>

\* the body of do_test! of the moving saturations
SaturationPass(pattern) ==
  LET zeroes == Lane8(0)
      ones   == Lane8(255)
  IN  <<set_all_up(pattern), get_all_up(pattern),
        set_all_up(zeroes), get_all_up(zeroes),
        set_all_up(pattern), get_all_up(pattern),
        set_all_up(ones), get_all_up(ones)>>

(***************************************************************************)
(* The generator (simd_xorshift.rs).  A u64 is the set of its one bits.    *)
(***************************************************************************)
\* a ^ b
Xor64(a, b) == {x \in Bits64 : (x \in a) # (x \in b)}

\* a + b of u64 (wrapping): the carry c ripples from byte k on
RECURSIVE AddFrom(_, _, _, _)
AddFrom(x, y, k, c) ==
  IF k > 8 THEN {}
  ELSE LET n == ByteOfBits(x, k) + ByteOfBits(y, k) + c
       IN  {8 * (k - 1) + b : b \in BitsOf(n % 256)}
             \cup AddFrom(x, y, k + 1, n \div 256)

\* _mm256_add_epi64 / _mm512_add_epi64, one element
AddEpi64(x, y) == AddFrom(x, y, 1, 0)

\* xorshift128plus_onkeys(&mut s0, &mut s1)
xorshift128plus_onkeys(k) ==
  LET s1_val == k.s0
      s0_val == k.s1
  IN  [s0 |-> s0_val,
       s1 |-> Xor64(Xor64(Xor64(Xor64(s1_val, Shl64(s1_val, 23)), s0_val),
                          Shr64(s1_val, 18)),
                    Shr64(s0_val, 5))]

\* const JUMP: [u64; 2] = [0x8a5cd789635d2dff, 0x121fd2155c472f96]
JUMP ==
  <<{0, 1, 2, 3, 4, 5, 6, 7, 8, 10, 11, 13, 16, 18, 19, 20, 22, 24, 25, 29,
     30, 32, 35, 39, 40, 41, 42, 44, 46, 47, 50, 51, 52, 54, 57, 59, 63},
    {1, 2, 4, 7, 8, 9, 10, 11, 13, 16, 17, 18, 22, 26, 27, 28, 30, 32, 34, 36,
     41, 44, 46, 47, 48, 49, 50, 51, 52, 57, 60}>>

\* one iteration of the loops of xorshift128plus_jump_onkeys on the loop
\* state st: st.n = 64 * (index of jump_val) + b, st.in = (in1, in2),
\* st.s = (s0, s1)
JumpStep(st) ==
  [n  |-> st.n + 1,
   in |-> xorshift128plus_onkeys(st.in),
   s  |-> IF (st.n % 64) \in JUMP[(st.n \div 64) + 1]
            THEN [s0 |-> Xor64(st.s.s0, st.in.s0),
                  s1 |-> Xor64(st.s.s1, st.in.s1)]
            ELSE st.s]

\* the iterations from the loop state st up to iteration `upto`, computed
\* by halves
RECURSIVE JumpFrom(_, _)
JumpFrom(st, upto) ==
  IF st.n >= upto THEN st
  ELSE IF st.n + 1 = upto THEN JumpStep(st)
  ELSE JumpFrom(JumpFrom(st, (st.n + upto) \div 2), upto)

\* xorshift128plus_jump_onkeys(in1, in2, &mut output1, &mut output2)
xorshift128plus_jump_onkeys(in) ==
  JumpFrom([n |-> 0, in |-> in, s |-> [s0 |-> {}, s1 |-> {}]],
           64 * Len(JUMP)).s

\* the arrays s0, s1 of *_xorshift128plus_init: element 0 is the seed, each
\* further element the jump of the one before
RECURSIVE InitLanes(_, _)
InitLanes(k, n) ==
  IF n = 1 THEN <<k>>
  ELSE LET before == InitLanes(k, n - 1)
       IN  Append(before, xorshift128plus_jump_onkeys(before[n - 1]))

\* the pair the rdrand loop ends with in the runs that do not vary it, and
\* its elements, computed once: those of the narrower vector are the first
\* of the wider one's
OneSeed == <<{0, 17, 40}, {3, 63}>>
OneSeedLanes ==
  InitLanes([s0 |-> OneSeed[1], s1 |-> OneSeed[2]], Width("AVX512") \div 8)

\* avx_xorshift128plus_init / avx512_xorshift128plus_init: w / 8 elements
RECURSIVE WordsOf(_, _, _)
WordsOf(ls, f, n) ==
  IF n = 0 THEN <<>> ELSE Append(WordsOf(ls, f, n - 1), ls[n][f])
xorshift128plus_init(key1, key2, w) ==
  LET ls == IF <<key1, key2>> = OneSeed THEN SubSeq(OneSeedLanes, 1, w \div 8)
            ELSE InitLanes([s0 |-> key1, s1 |-> key2], w \div 8)
  IN  [part1 |-> WordsOf(ls, "s0", Len(ls)),
       part2 |-> WordsOf(ls, "s1", Len(ls))]

\* one 64-bit element of avx_xorshift128plus / avx512_xorshift128plus: the
\* new part2 from the old parts.  `_s1 = key.part1` is never used: s1_new
\* is computed from key.part2
Part2After(part1, part2) ==
  LET s0     == part2
      s1_new == Xor64(part2, SlliEpi64(part2, 23))
  IN  Xor64(Xor64(Xor64(s1_new, s0), SrliEpi64(s1_new, 18)),
            SrliEpi64(s0, 5))

\* the new part2 of the first n elements
RECURSIVE Part2Lanes(_, _)
Part2Lanes(key, n) ==
  IF n = 0 THEN <<>>
  ELSE Append(Part2Lanes(key, n - 1),
              Part2After(key.part1[n], key.part2[n]))

\* _mm256_add_epi64(key.part2, s0) of the first n elements
RECURSIVE AddLanes(_, _, _)
AddLanes(a, b, n) ==
  IF n = 0 THEN <<>>
  ELSE Append(AddLanes(a, b, n - 1), AddEpi64(a[n], b[n]))

\* avx_xorshift128plus(key) / avx512_xorshift128plus(key): the key after the
\* call and the value returned
xorshift128plus(key) ==
  LET s0  == key.part2
      nxt == Part2Lanes(key, Len(key.part2))
  IN  [key |-> [part1 |-> key.part2, part2 |-> nxt],
       out |-> AddLanes(nxt, s0, Len(s0))]

\* the key after n calls
RECURSIVE KeyAfter(_, _)
KeyAfter(key, n) ==
  IF n = 0 THEN key
  ELSE IF n = 1 THEN xorshift128plus(key).key
  ELSE KeyAfter(KeyAfter(key, n \div 2), n - (n \div 2))

\* static mut RNG before *_tests_init: zeroed
RECURSIVE Zeroed(_)
Zeroed(n) == IF n = 0 THEN <<>> ELSE Append(Zeroed(n - 1), {})
ZeroKey(w) == [part1 |-> Zeroed(w \div 8), part2 |-> Zeroed(w \div 8)]

\* avx2_tests_init / avx512_tests_init: r is the pair the rdrand loop ends
\* with; the avx512 function of a build without avx512f has an empty body
tests_init(set, built, r, key) ==
  IF set = "AVX512" /\ ~built THEN key
  ELSE xorshift128plus_init(r[1], r[2], Width(set))

\* the bytes of a vector of 64-bit elements, little endian
VecOfLanes(ls) ==
  [k \in 1..(8 * Len(ls)) |-> ByteOfBits(ls[((k - 1) \div 8) + 1], ((k - 1) % 8) + 1)]

\* `for _ in 0..16` of the random inversions from iteration n on
RECURSIVE RandomFrom(_, _)
RandomFrom(key, n) ==
  IF n >= 16 THEN <<>>
  ELSE LET call == xorshift128plus(key)
       IN  InversionPass(VecOfLanes(call.out)) \o RandomFrom(call.key, n + 1)

\* avx2_random_inversions / avx512_random_inversions, RNG being key at entry
random_inversions(key) == RandomFrom(key, 0)

\* the value the scalar generator returns for a step from k: the sum of
\* the two words after the step, as simd_xorshift.rs:74 forms it per element
ScalarOut(k) ==
  LET after == xorshift128plus_onkeys(k)
  IN  AddEpi64(after.s1, after.s0)

\* the scalar key after n steps
RECURSIVE ScalarAfter(_, _)
ScalarAfter(k, n) ==
  IF n = 0 THEN k
  ELSE IF n = 1 THEN xorshift128plus_onkeys(k)
  ELSE ScalarAfter(ScalarAfter(k, n \div 2), n - (n \div 2))

\* avx2_moving_inversions_left_64
moving_inversions_left_64 ==
  ForRange([i \in 0..(64 - 1) |->
             InversionPass(
             LaneOfBits(SlliEpi64(Set1Epi64x(BitsOf(1)), i)))], 64, 4)

\* avx2_moving_inversions_right_32: 0x80000000 is bit 31
moving_inversions_right_32 ==
  ForRange([i \in 0..(32 - 1) |->
             InversionPass(
             LaneOfBits(SrliEpi64(Set1Epi32({31}), i)))], 32, 4)

\* avx2_moving_inversions_left_16
moving_inversions_left_16 ==
  ForRange([i \in 0..(16 - 1) |->
             InversionPass(
             LaneOfBits(SlliEpi64(Set1Epi16(BitsOf(1)), i)))], 16, 4)

\* avx2_moving_inversions_right_8
moving_inversions_right_8 ==
  ForRange([i \in 0..(8 - 1) |->
             InversionPass(
             LaneOfBits(SrliEpi64(Set1Epi8(BitsOf(128)), i)))], 8, 4)

\* avx2_moving_inversions_left_4
moving_inversions_left_4 ==
  ForRange([i \in 0..(4 - 1) |->
             InversionPass(
             LaneOfBits(SlliEpi64(Set1Epi8(BitsOf(17)), i)))], 4, 4)

\* avx2_moving_saturations_right_16
moving_saturations_right_16 ==
  ForRange([i \in 0..(16 - 1) |->
             SaturationPass(
             LaneOfBits(SrliEpi16(Set1Epi16(BitsOf(32768)), i)))], 16, 8)

\* avx2_moving_saturations_left_8: _mm256_srli_epi16::<i>(_mm256_set1_epi16(0x01))
moving_saturations_left_8 ==
  ForRange([i \in 0..(8 - 1) |->
             SaturationPass(
             LaneOfBits(SrliEpi16(Set1Epi16(BitsOf(1)), i)))], 8, 8)

\* avx2_walking_1: 1u64 << bit
walking_1 ==
  ForRange([bit \in 0..(64 - 1) |->
             InversionPass(
             LaneOfBits(Set1Epi64x(Shl64(BitsOf(1), bit))))], 64, 4)

\* avx2_walking_0: !(1u64 << bit)
walking_0 ==
  ForRange([bit \in 0..(64 - 1) |->
             InversionPass(
             LaneOfBits(Set1Epi64x(Bits64 \ Shl64(BitsOf(1), bit))))], 64, 4)

\* the array `patterns` of avx2_anti_patterns
anti_pattern_bytes ==
  <<0, 255, 15, 240, 85, 170, 51, 204,
    17, 238, 34, 221, 68, 187, 102, 153,
    119, 136, 1, 254, 2, 253, 4, 251,
    8, 247, 16, 239, 32, 223, 64, 191,
    128, 127>>

AntiPass(pattern) ==
  LET anti_pattern == NotLane(pattern)
  IN  <<set_all_up(pattern), get_all_up(pattern),
        set_all_up(anti_pattern), get_all_up(anti_pattern),
        set_all_down(pattern), get_all_down(pattern),
        set_all_down(anti_pattern), get_all_down(anti_pattern)>>

\* avx2_anti_patterns
anti_patterns ==
  ForRange([n \in 0..(Len(anti_pattern_bytes) - 1) |->
             AntiPass(Lane8(anti_pattern_bytes[n + 1]))], Len(anti_pattern_bytes), 8)

\* base_pattern ^ (mask << shift) with base_pattern all ones
ClearedField(mask, shift) == Bits64 \ Shl64(mask, shift)

\* avx2_inverse_data_patterns: bytes, words, double words
inverse_data_patterns ==
  ForRange([byte_idx \in 0..(8 - 1) |->
             InversionPass(
             LaneOfBits(Set1Epi64x(ClearedField(0..7, byte_idx * 8))))], 8, 4)
  \o ForRange([word_idx \in 0..(4 - 1) |->
             InversionPass(
             LaneOfBits(Set1Epi64x(ClearedField(0..15, word_idx * 16))))], 4, 4)
  \o ForRange([dword_idx \in 0..(2 - 1) |->
             InversionPass(
             LaneOfBits(Set1Epi64x(ClearedField(0..31, dword_idx * 32))))], 2, 4)

\* (test.run)(mem_ptr, size): the sweeps of the kernel `run` names
KernelSweeps(run) ==
  CASE run = "BasicTests"               -> basic_tests
    [] run = "RandomInversions"         -> random_inversions(RNG)
    [] run = "MovingInversionsLeft64"   -> moving_inversions_left_64
    [] run = "MovingInversionsRight32"  -> moving_inversions_right_32
    [] run = "MovingInversionsLeft16"   -> moving_inversions_left_16
    [] run = "MovingInversionsRight8"   -> moving_inversions_right_8
    [] run = "MovingInversionsLeft4"    -> moving_inversions_left_4
    [] run = "MovingSaturationsRight16" -> moving_saturations_right_16
    [] run = "MovingSaturationsLeft8"   -> moving_saturations_left_8
    [] run = "Walking1"                 -> walking_1
    [] run = "Walking0"                 -> walking_0
    [] run = "Checkerboard"             -> checkerboard
    [] run = "AntiPatterns"             -> anti_patterns
    [] run = "InverseDataPatterns"      -> inverse_data_patterns

\* the avx512_* functions of a build without target_feature = "avx512f":
\* empty bodies
avx512_stub == <<>>

\* the sweeps of the program in progress
Sweeps(p) ==
  IF p.kernel = "harness" THEN p.sweeps
  ELSE IF isa = "AVX512" /\ ~avx512f THEN avx512_stub
  ELSE IF p.kernel = "RandomInversions" THEN p.sweeps
  ELSE KernelSweeps(p.kernel)

\* the vector a sweep stores to, or expects at, offset idx
PatternAt(sw, idx, w) ==
  VecOf(IF (idx \div w) % 2 # 0 THEN sw.odd ELSE sw.even, w)

(***************************************************************************)
(* run_tests: preparation and buffer acquisition (lib.rs:61-145)           *)
(***************************************************************************)
Workers == 0..(cpu_count - 1)

\* the contents of a freshly allocated buffer: every byte 0xCD (no kernel
\* reads a slot before its first fill sweep has stored to it)
FreshBuffer(sz, w) == [k \in 0..((sz \div w) - 1) |-> VecOf(Lane8(205), w)]

NoAccess == [op |-> "none"]

\* the state of a thread that has not reached the test loop
IdleLoop ==
  /\ entries = <<>> /\ test_config = <<>> /\ test_idx = 0 /\ loop_i = 0
  /\ lines = <<>>
IdleKernel ==
  /\ prog = [kernel |-> "none", sweeps |-> <<>>] /\ sweep = 0
  /\ wst = [i \in Workers |-> "idle"]
  /\ wj = [i \in Workers |-> 0]
  /\ wsw = [i \in Workers |-> 0]
IdleHist ==
  /\ acc = NoAccess /\ touched = {} /\ dups = FALSE /\ unfenced = {}

\* collect_system_info not called: no table loaded, no walk
NoWalk == [phase |-> "idle", offset |-> 0, iters |-> 0, board |-> FALSE,
           oob |-> FALSE]
IdleSmb == table = <<>> /\ walk = NoWalk

\* no value returned yet
NoDraw == [lane0 |-> {}, ref |-> {}]

\* the generator of a process that has not called *_tests_init, whose
\* rdrand loop will end with the pair r
IdleRng(r) ==
  /\ rdrand = r
  /\ RNG = ZeroKey(Width(isa))
  /\ ref = [s0 |-> {}, s1 |-> {}]
  /\ calls = 0 /\ drawn = NoDraw

\* the generator right after tests_init (lib.rs:153)
SeededRng(r) ==
  /\ rdrand = r
  /\ RNG = tests_init(isa, avx512f, r, ZeroKey(Width(isa)))
  /\ ref = [s0 |-> r[1], s1 |-> r[2]]
  /\ calls = 0 /\ drawn = NoDraw

\* lib.rs:90  ram_bytes - (ram_bytes % alignment)
RoundDown(bytes, align) == bytes - (bytes % align)

\* lib.rs:100  the size of attempt i
AllocSize(bytes, i) == bytes - i * BACKOFF

\* a & b of two addresses
RECURSIVE BitAnd(_, _)
BitAnd(a, b) ==
  IF a = 0 \/ b = 0 THEN 0
  ELSE (a % 2) * (b % 2) + 2 * BitAnd(a \div 2, b \div 2)

\* x & !m: the bits of x that m does not have
AndNot(x, m) == x - BitAnd(x, m)

\* the least power of two that is no less than a
NextPow2(a) == CHOOSE q \in {2 ^ k : k \in 0..30} :
                 q >= a /\ \A r \in {2 ^ k : k \in 0..30} : r >= a => q <= r

\* no aligned_alloc has returned an address
NoPtr == [addr |-> 0, raw |-> 0, len |-> 0]

\* platform.rs:80-105 (windows): VirtualAlloc of size + alignment bytes at
\* raw, then ((raw_ptr + alignment - 1) & !(alignment - 1))
windows_aligned_alloc(align, sz, raw) ==
  [addr |-> AndNot(raw + align - 1, align - 1), raw |-> raw,
   len |-> sz + align]

\* platform.rs:183-185 (not windows): libc::aligned_alloc.  An alignment
\* that is no power of two is outside the function's contract: the library
\* returns null (AcqAllocFail) or aligns to the next power of two
libc_aligned_alloc(align, sz, raw) ==
  LET q    == NextPow2(align)
      addr == ((raw + q - 1) \div q) * q
  IN  [addr |-> addr, raw |-> addr, len |-> sz]

\* a non-null return of platform::aligned_alloc(alignment, size), the
\* operating system placing its block at raw
aligned_alloc(plat, align, sz, raw) ==
  IF plat = "windows" THEN windows_aligned_alloc(align, sz, raw)
  ELSE libc_aligned_alloc(align, sz, raw)

\* platform.rs mlock: what the platform layer returns when the operating
\* system's lock call (libc::mlock, VirtualLock) succeeded or failed
mlock(plat, os_locked) ==
  IF plat = "windows"
    THEN (IF os_locked THEN 0 ELSE 0)
    ELSE (IF os_locked THEN 0 ELSE -1)

\* aligned_alloc returned a buffer: one more live allocation
Allocated(n) == n + 1

\* A free that releases nothing.
FreedNothing(n) == n

\* aligned_free(ptr): one live allocation less
Freed(n) == n - 1

\* lib.rs:71-74  no AVX2 and no AVX-512: exit(-1)
PrepareNoSimd ==
  /\ pc = "start" /\ isa = "SSE"
  /\ pc' = "exited"
  /\ UNCHANGED <<rngv, lines, smbv>>
  /\ UNCHANGED <<hw, stop_signal, acqv, loopv, kernv, buf, ERRORS, log, hist,
                 errSum, stopv, faults>>

\* lib.rs:89-94
Prepare ==
  /\ pc = "start" /\ isa # "SSE"
  /\ alignment' = cpu_count * pagesize
  /\ ram_bytes' = RoundDown(req, cpu_count * pagesize)
  /\ mem' = "none" /\ size' = 0 /\ acq_i' = 0
  /\ tried' = <<>> /\ pinned' = FALSE /\ ptr' = NoPtr
  /\ pc' = "acq"
  /\ UNCHANGED <<rngv, lines, smbv>>
  /\ UNCHANGED <<hw, stop_signal, live, loopv, kernv, buf, ERRORS, log, hist,
                 errSum, stopv, faults>>

InAcqRange == acq_i <= ram_bytes \div BACKOFF

\* An acquisition loop that never sees the flag.
AcqStopCheckBlind(flag) == FALSE

\* lib.rs:97  stop_signal.load at the top of an acquisition attempt
AcqStopCheck(flag) == flag

\* lib.rs:96  the range 0..=(ram_bytes / BACKOFF) is exhausted
AcqExhausted ==
  /\ pc = "acq" /\ ~InAcqRange
  /\ pc' = "mem_check"
  /\ UNCHANGED <<rngv, lines, smbv>>
  /\ UNCHANGED <<hw, stop_signal, acqv, loopv, kernv, buf, ERRORS, log, hist,
                 errSum, stopv, faults>>

\* lib.rs:97-99
AcqStopped ==
  /\ pc = "acq" /\ InAcqRange /\ AcqStopCheck(stop_signal)
  /\ seenStop' = TRUE
  /\ pc' = "mem_check"
  /\ UNCHANGED <<rngv, lines, smbv>>
  /\ UNCHANGED <<hw, stop_signal, acqv, loopv, kernv, buf, ERRORS, log, hist,
                 errSum, afterSeen, afterSet, faults>>

\* lib.rs:100-103
AcqZero ==
  /\ pc = "acq" /\ InAcqRange /\ ~AcqStopCheck(stop_signal)
  /\ AllocSize(ram_bytes, acq_i) = 0
  /\ pc' = "mem_check"
  /\ UNCHANGED <<rngv, lines, smbv>>
  /\ UNCHANGED <<hw, stop_signal, acqv, loopv, kernv, buf, ERRORS, log, hist,
                 errSum, stopv, faults>>

\* lib.rs:107-110  aligned_alloc returns null: continue
AcqAllocFail ==
  /\ pc = "acq" /\ InAcqRange /\ ~AcqStopCheck(stop_signal)
  /\ AllocSize(ram_bytes, acq_i) # 0
  /\ tried' = Append(tried, AllocSize(ram_bytes, acq_i))
  /\ acq_i' = acq_i + 1
  /\ UNCHANGED <<rngv, lines, smbv>>
  /\ UNCHANGED <<hw, stop_signal, pc, ram_bytes, alignment, mem, size, live,
                 pinned, ptr, loopv, kernv, buf, ERRORS, log, hist, errSum, stopv,
                 faults>>

\* lib.rs:112,135-138  the allocation succeeds, mlock returns nonzero:
\* aligned_free, next attempt
AcqPinFail ==
  /\ pc = "acq" /\ InAcqRange /\ ~AcqStopCheck(stop_signal)
  /\ AllocSize(ram_bytes, acq_i) # 0
  /\ mlock(platform, FALSE) # 0
  /\ tried' = Append(tried, AllocSize(ram_bytes, acq_i))
  /\ ptr' = aligned_alloc(platform, alignment, AllocSize(ram_bytes, acq_i),
                          os_raw)
  /\ live' = Freed(Allocated(live))
  /\ acq_i' = acq_i + 1
  /\ UNCHANGED <<rngv, lines, smbv>>
  /\ UNCHANGED <<hw, stop_signal, pc, ram_bytes, alignment, mem, size, pinned,
                 loopv, kernv, buf, ERRORS, log, hist, errSum, stopv, faults>>

\* lib.rs:107-134  the allocation succeeds and mlock returns 0: accept and break
AcqAccept ==
  /\ pc = "acq" /\ InAcqRange /\ ~AcqStopCheck(stop_signal)
  /\ AllocSize(ram_bytes, acq_i) # 0
  /\ AllocSize(ram_bytes, acq_i) <= memlock
  /\ \E os_locked \in BOOLEAN :
       /\ mlock(platform, os_locked) = 0
       /\ pinned' = os_locked
  /\ mem' = "some"
  /\ ptr' = aligned_alloc(platform, alignment, AllocSize(ram_bytes, acq_i),
                          os_raw)
  /\ size' = AllocSize(ram_bytes, acq_i)
  /\ tried' = Append(tried, AllocSize(ram_bytes, acq_i))
  /\ live' = Allocated(live)
  /\ pc' = "mem_check"
  /\ UNCHANGED <<rngv, lines, smbv>>
  /\ UNCHANGED <<hw, stop_signal, ram_bytes, alignment, acq_i, loopv, kernv,
                 buf, ERRORS, log, hist, errSum, stopv, faults>>

\* lib.rs:142-145  nothing was locked: exit(-1)
MemCheckNone ==
  /\ pc = "mem_check" /\ mem = "none"
  /\ pc' = "exited"
  /\ UNCHANGED <<rngv, lines, smbv>>
  /\ UNCHANGED <<hw, stop_signal, acqv, loopv, kernv, buf, ERRORS, log, hist,
                 errSum, stopv, faults>>

\* the front end stores true into the stop flag (gui.rs:145)
SetStop ==
  /\ pc \notin {"returned", "exited", "crashed"}
  /\ ~stop_signal
  /\ stop_signal' = TRUE
  /\ afterSet' = 0
  /\ UNCHANGED <<rngv, lines, smbv>>
  /\ UNCHANGED <<hw, pc, acqv, loopv, kernv, buf, ERRORS, log, hist, errSum,
                 seenStop, afterSeen, faults>>

\* n calls of avx_xorshift128plus(&mut RNG), with the history of the scalar
\* generator stepped as often
RngCalls(n) ==
  /\ RNG' = KeyAfter(RNG, n)
  /\ ref' = ScalarAfter(ref, n)
  /\ calls' = calls + n
  /\ drawn' = IF n = 0 THEN drawn
              ELSE [lane0 |-> xorshift128plus(KeyAfter(RNG, n - 1)).out[1],
                    ref   |-> ScalarOut(ScalarAfter(ref, n - 1))]
  /\ UNCHANGED <<rdrand, smbv>>

(***************************************************************************)
(* run_tests: the test loop (lib.rs:147-214)                               *)
(***************************************************************************)
\* lib.rs:147-155  load the config, bind the tests, tests_init.  From here
\* on `buf` holds what the accepted buffer contains.
Bind ==
  /\ pc = "mem_check" /\ mem = "some"
  /\ RNG' = tests_init(isa, avx512f, rdrand, RNG)
  /\ ref' = [s0 |-> rdrand[1], s1 |-> rdrand[2]]
  /\ calls' = 0 /\ drawn' = NoDraw
  /\ LET es == UnwrapOrDefault(load_custom_config(conf))
     IN  /\ entries' = es
         /\ \E order \in HashOrders :
              test_config' = build_tests_from_config(es, isa, order)
  /\ test_idx' = 0 /\ loop_i' = 0
  /\ buf' = FreshBuffer(size, Width(isa))
  /\ pc' = "outer"
  /\ lines' = <<>>
  /\ UNCHANGED <<rdrand, smbv>>
  /\ UNCHANGED <<hw, stop_signal, acqv, kernv, ERRORS, log, hist, errSum,
                 stopv, faults>>

\* A loop that runs once more than asked.
InLoopRangeInclusive(i, loops) == i <= loops + 1

\* lib.rs:174  `for i in 1..(test.loops+1)`: i is in the range
InLoopRange(i, loops) == i <= loops

\* An estimate after every invocation.
EstimateAlways(i, loops) == TRUE

\* lib.rs:181  `if i < test.loops`
EstimateDue(i, loops) == i < loops

\* lib.rs:164-170  the line printed before a test's loop
RunningLine(test, idx) ==
  [line |-> IF test.loops > 1 THEN "Running (Nx)"
            ELSE IF test.loops = 0 THEN "Skipping" ELSE "Running",
   test |-> idx]

\* lib.rs:181-187  the running estimate after invocation i: the factor
\* passes * iters * i of its bandwidth
EstimateLine(test, idx, i) ==
  [line |-> "estimate", test |-> idx, i |-> i,
   passes |-> test.passes * test.iters * i]

\* lib.rs:189-190  the line after a test's loop, with the factor
\* passes * iters * loops of its bandwidth
CompletedLine(test, idx) ==
  [line |-> "completed", test |-> idx,
   passes |-> test.passes * test.iters * test.loops]

\* lib.rs:206-208  test_config.iter().map(|t| t.passes * t.iters *
\* t.loops).sum()
RECURSIVE total_passes(_)
total_passes(tests) ==
  IF Len(tests) = 0 THEN 0
  ELSE tests[1].passes * tests[1].iters * tests[1].loops
       + total_passes(Tail(tests))

\* lib.rs:156-159  top of `loop`, start of `for test in &test_config`
OuterStart ==
  /\ pc = "outer"
  /\ test_idx' = 1
  /\ pc' = "test_check"
  /\ lines' = <<>>
  /\ UNCHANGED <<rngv, smbv>>
  /\ UNCHANGED <<hw, stop_signal, acqv, entries, test_config, loop_i, kernv, buf,
                 ERRORS, log, hist, errSum, stopv, faults>>

\* lib.rs:159  the for loop over the tests is exhausted
TestsDone ==
  /\ pc = "test_check" /\ test_idx > Len(test_config)
  /\ pc' = "outer_end"
  /\ UNCHANGED <<rngv, lines, smbv>>
  /\ UNCHANGED <<hw, stop_signal, acqv, loopv, kernv, buf, ERRORS, log, hist,
                 errSum, stopv, faults>>

\* lib.rs:161  stop_signal.load before a test: the value the check acts on
\* A check that never sees the flag.
StopCheckBlind(flag) == FALSE

TestStopCheck(flag) == flag

\* lib.rs:175  stop_signal.load before a kernel invocation
LoopStopCheck(flag) == flag

\* lib.rs:199  stop_signal.load at the end of an outer iteration
OuterStopCheck(flag) == flag

\* lib.rs:161-163  the flag is read as set: break
TestStop ==
  /\ pc = "test_check" /\ test_idx <= Len(test_config)
  /\ TestStopCheck(stop_signal)
  /\ seenStop' = TRUE
  /\ pc' = "outer_end"
  /\ UNCHANGED <<rngv, lines, smbv>>
  /\ UNCHANGED <<hw, stop_signal, acqv, loopv, kernv, buf, ERRORS, log, hist,
                 errSum, afterSeen, afterSet, faults>>

\* lib.rs:161-174  the flag is read as clear: Running/Skipping line, i = 1
TestBegin ==
  /\ pc = "test_check" /\ test_idx <= Len(test_config)
  /\ ~TestStopCheck(stop_signal)
  /\ loop_i' = 1
  /\ pc' = "loop_check"
  /\ lines' = Append(lines, RunningLine(test_config[test_idx], test_idx))
  /\ UNCHANGED <<rngv, smbv>>
  /\ UNCHANGED <<hw, stop_signal, acqv, entries, test_config, test_idx, kernv, buf,
                 ERRORS, log, hist, errSum, stopv, faults>>

\* lib.rs:174  the range 1..(test.loops+1) is exhausted
LoopDone ==
  /\ pc = "loop_check" /\ ~InLoopRange(loop_i, test_config[test_idx].loops)
  /\ pc' = "test_done"
  /\ UNCHANGED <<rngv, lines, smbv>>
  /\ UNCHANGED <<hw, stop_signal, acqv, loopv, kernv, buf, ERRORS, log, hist,
                 errSum, stopv, faults>>

\* lib.rs:175-177  the flag is read as set: break
LoopStop ==
  /\ pc = "loop_check" /\ InLoopRange(loop_i, test_config[test_idx].loops)
  /\ LoopStopCheck(stop_signal)
  /\ seenStop' = TRUE
  /\ pc' = "test_done"
  /\ UNCHANGED <<rngv, lines, smbv>>
  /\ UNCHANGED <<hw, stop_signal, acqv, loopv, kernv, buf, ERRORS, log, hist,
                 errSum, afterSeen, afterSet, faults>>

\* lib.rs:175  the flag is read as clear
LoopGo ==
  /\ pc = "loop_check" /\ InLoopRange(loop_i, test_config[test_idx].loops)
  /\ ~LoopStopCheck(stop_signal)
  /\ pc' = "invoke"
  /\ UNCHANGED <<rngv, lines, smbv>>
  /\ UNCHANGED <<hw, stop_signal, acqv, loopv, kernv, buf, ERRORS, log, hist,
                 errSum, stopv, faults>>

\* lib.rs:178-180  (test.run)(mem_ptr, size)
InvokeKernel ==
  /\ pc = "invoke"
  /\ LET k   == test_config[test_idx].run
         n   == IF k = "RandomInversions" /\ ~(isa = "AVX512" /\ ~avx512f)
                  THEN 16 ELSE 0
         run == [kernel |-> k,
                 sweeps |-> IF n = 0 THEN <<>> ELSE random_inversions(RNG)]
     IN  /\ prog' = run
         /\ IF Len(Sweeps(run)) = 0
              THEN sweep' = 0 /\ pc' = "after_kernel"
              ELSE sweep' = 1 /\ pc' = "sweep"
         /\ RngCalls(n)
  /\ lines' = Append(lines, [line |-> "run", test |-> test_idx, i |-> loop_i])
  /\ afterSeen' = (afterSeen \/ seenStop)
  /\ afterSet' = IF stop_signal THEN (IF afterSet >= 1 THEN 2 ELSE 1)
                                ELSE afterSet
  /\ UNCHANGED <<hw, stop_signal, acqv, loopv, wst, wj, wsw, buf, ERRORS, log,
                 hist, errSum, seenStop, faults>>

\* lib.rs:181-188  the running bandwidth estimate, next i
AfterKernel ==
  /\ pc = "after_kernel"
  /\ loop_i' = loop_i + 1
  /\ pc' = "loop_check"
  /\ lines' = IF EstimateDue(loop_i, test_config[test_idx].loops)
               THEN Append(lines, EstimateLine(test_config[test_idx],
                                               test_idx, loop_i))
               ELSE lines
  /\ UNCHANGED <<rngv, smbv>>
  /\ UNCHANGED <<hw, stop_signal, acqv, entries, test_config, test_idx, kernv, buf,
                 ERRORS, log, hist, errSum, stopv, faults>>

\* lib.rs:189-191  the "completed" line, next test
TestDone ==
  /\ pc = "test_done"
  /\ test_idx' = test_idx + 1
  /\ pc' = "test_check"
  /\ lines' = Append(lines, CompletedLine(test_config[test_idx], test_idx))
  /\ UNCHANGED <<rngv, smbv>>
  /\ UNCHANGED <<hw, stop_signal, acqv, entries, test_config, loop_i, kernv, buf,
                 ERRORS, log, hist, errSum, stopv, faults>>

\* lib.rs:193-201,213  errors line; the flag is read as set: break, return
OuterStop ==
  /\ pc = "outer_end"
  /\ OuterStopCheck(stop_signal)
  /\ seenStop' = TRUE
  /\ pc' = "returned"
  /\ UNCHANGED <<rngv, lines, smbv>>
  /\ UNCHANGED <<hw, stop_signal, acqv, loopv, kernv, buf, ERRORS, log, hist,
                 errSum, afterSeen, afterSet, faults>>

\* lib.rs:193-211  the flag is read as clear: summary line, next iteration
OuterAgain ==
  /\ pc = "outer_end"
  /\ ~OuterStopCheck(stop_signal)
  /\ pc' = "outer"
  /\ lines' = Append(lines, [line |-> "Tests completed",
                              passes |-> total_passes(test_config)])
  /\ UNCHANGED <<rngv, smbv>>
  /\ UNCHANGED <<hw, stop_signal, acqv, loopv, kernv, buf, ERRORS, log, hist,
                 errSum, stopv, faults>>

\* the front end clears the flag and calls run_tests again (gui.rs:127-140)
Restart ==
  /\ pc = "returned"
  /\ stop_signal' = FALSE
  /\ pc' = "start"
  /\ live < MaxLive
  /\ ram_bytes' = 0 /\ alignment' = 0 /\ acq_i' = 0 /\ mem' = "none"
  /\ size' = 0 /\ tried' = <<>> /\ pinned' = FALSE /\ ptr' = NoPtr
  /\ entries' = <<>> /\ test_config' = <<>> /\ test_idx' = 0 /\ loop_i' = 0
  /\ prog' = [kernel |-> "none", sweeps |-> <<>>] /\ sweep' = 0
  /\ wst' = [i \in Workers |-> "idle"]
  /\ wj' = [i \in Workers |-> 0]
  /\ wsw' = [i \in Workers |-> 0]
  /\ buf' = <<>>
  /\ acc' = NoAccess /\ touched' = {} /\ dups' = FALSE /\ unfenced' = {}
  /\ lines' = <<>>
  /\ seenStop' = FALSE /\ afterSeen' = FALSE /\ afterSet' = 0
  /\ UNCHANGED <<rngv, smbv>>
  /\ UNCHANGED <<hw, live, ERRORS, log, errSum, faults>>

(***************************************************************************)
(* Sweep primitives (tests_avx2.rs:43-114, tests_avx512.rs:44-115)         *)
(***************************************************************************)
\* let chunk_size = size / CPUS
chunk_size(sz, cpus) == sz \div cpus

\* get_all_up / set_all_up: `for j in (0..chunk_size).step_by(W)` goes on
UpContinue(j, chunk) == j < chunk

\* A down loop that starts one vector too low.
DownStartShort(start, end, w) == ((end - start) \div w) * w + start - w

\* get_all_down / set_all_down: let mut j = ((end - start) / W) * W + start
DownStart(start, end, w) == ((end - start) \div w) * w + start

\* A down loop that goes on while j has not passed the start.
DownContinueToStart(j, start, w) == j >= start

\* while j >= start + W
DownContinue(j, start, w) == j >= start + w

\* A join that returns as soon as one work item has completed.
JoinReadyAny(st) == \E i \in DOMAIN st : st[i] = "done"

\* rayon for_each returns when every work item has completed
JoinReady(st) == \A i \in DOMAIN st : st[i] = "done"

CurSweep == Sweeps(prog)[sweep]
W == Width(isa)
Chunk == chunk_size(size, cpu_count)

\* (0..CPUS).into_par_iter()[.rev()].for_each(...): one work item per CPU
Dispatch ==
  /\ pc = "sweep"
  /\ wst' = [i \in Workers |-> "run"]
  /\ wj' = [i \in Workers |->
             IF CurSweep.dir = "up" THEN 0
             ELSE DownStart(i * Chunk, i * Chunk + Chunk, W)]
  /\ wsw' = [i \in Workers |-> sweep]
  /\ touched' = {} /\ dups' = FALSE
  /\ pc' = "join"
  /\ UNCHANGED <<rngv, lines, smbv>>
  /\ UNCHANGED <<hw, stop_signal, acqv, loopv, prog, sweep, buf, ERRORS, log,
                 acc, unfenced, errSum, stopv, faults>>

\* an aligned W-byte access inside the buffer
AccessOk(idx, w, sz) == idx % w = 0 /\ idx >= 0 /\ idx + w <= sz

\* one set or get of work item i at offset idx.  vmovntdq and vmovdqa fault
\* on an address that is not W-aligned, and an access past the end of the
\* mapping faults as well: the process dies.
Access(i, idx, sw) ==
  /\ acc' = [op |-> sw.op, idx |-> idx, w |-> W]
  /\ dups' = (dups \/ \E t \in touched : t[1] = idx)
  /\ touched' = touched \cup {<<idx, i>>}
  /\ unfenced' = IF sw.op = "set" THEN unfenced \cup {idx \div W} ELSE unfenced
  /\ IF ~AccessOk(idx, W, size)
       THEN pc' = "crashed" /\ UNCHANGED <<buf, ERRORS, log, errSum>>
       ELSE /\ pc' = pc
            /\ IF sw.op = "set"
                 THEN /\ buf' = Set(buf, idx, PatternAt(sw, idx, W), W)
                      /\ UNCHANGED <<ERRORS, log, errSum>>
                 ELSE LET r == Get(isa, buf[idx \div W], idx,
                                   PatternAt(sw, idx, W))
                      IN  /\ ERRORS' = IF r.inc > 0 THEN FetchAdd(ERRORS, r.inc)
                                                    ELSE ERRORS
                          /\ errSum' = errSum + r.inc
                          /\ log' = IF r.line = NoLog THEN log ELSE r.line
                          /\ buf' = buf

\* one iteration of the loop of work item i
WorkerAccess(i) ==
  /\ pc # "crashed" /\ wst[i] = "run"
  /\ LET sw == Sweeps(prog)[wsw[i]]
     IN  IF sw.dir = "up"
           THEN /\ UpContinue(wj[i], Chunk)
                /\ wj' = [wj EXCEPT ![i] = wj[i] + W]
                /\ Access(i, wj[i] + i * Chunk, sw)
           ELSE /\ DownContinue(wj[i], i * Chunk, W)
                /\ wj' = [wj EXCEPT ![i] = wj[i] - W]
                /\ Access(i, wj[i] - W, sw)
  /\ UNCHANGED <<rngv, lines, smbv>>
  /\ UNCHANGED <<hw, stop_signal, acqv, loopv, prog, sweep, wst, wsw, stopv,
                 faults>>

\* the loop of work item i ends
WorkerFinish(i) ==
  /\ pc # "crashed" /\ wst[i] = "run"
  /\ LET sw == Sweeps(prog)[wsw[i]]
     IN  IF sw.dir = "up" THEN ~UpContinue(wj[i], Chunk)
                          ELSE ~DownContinue(wj[i], i * Chunk, W)
  /\ wst' = [wst EXCEPT ![i] = "done"]
  /\ UNCHANGED <<rngv, lines, smbv>>
  /\ UNCHANGED <<hw, stop_signal, pc, acqv, loopv, prog, sweep, wj, wsw, buf,
                 ERRORS, log, hist, errSum, stopv, faults>>

\* the sweep call returns; the kernel goes on to its next sweep or returns
Join ==
  /\ pc = "join" /\ JoinReady(wst)
  /\ wst' = [i \in Workers |-> IF wst[i] = "done" THEN "idle" ELSE wst[i]]
  /\ IF sweep < Len(Sweeps(prog))
       THEN sweep' = sweep + 1 /\ pc' = "sweep"
       ELSE sweep' = sweep /\ pc' = "after_kernel"
  /\ UNCHANGED <<rngv, lines, smbv>>
  /\ UNCHANGED <<hw, stop_signal, acqv, loopv, prog, wj, wsw, buf, ERRORS, log,
                 hist, errSum, stopv, faults>>

\* defective RAM: the bytes `at` of a slot flip
FlipBytes(v, at) == [k \in DOMAIN v |-> IF k \in at THEN NotByte(v[k]) ELSE v[k]]

FaultShapes(w) == {{1}, 1..w}

InjectFault ==
  /\ mem = "some" /\ pc \in {"sweep", "join"}
  /\ faults < MaxFaults
  /\ \E slot \in DOMAIN buf : \E at \in FaultShapes(W) :
       buf' = [buf EXCEPT ![slot] = FlipBytes(buf[slot], at)]
  /\ faults' = faults + 1
  /\ UNCHANGED <<rngv, lines, smbv>>
  /\ UNCHANGED <<hw, stop_signal, pc, acqv, loopv, kernv, ERRORS, log, hist,
                 errSum, stopv>>

(***************************************************************************)
(* Spec: one process, run_tests called by the front end                    *)
(***************************************************************************)
\* the allocation granularity of VirtualAlloc
Granule == 65536
RawBases == {Granule * k : k \in 1..MaxRawSlots}
OneBase == Granule
ISAs == {"SSE", "AVX2", "AVX512"}
Platforms == {"unix", "windows"}
PageSizes(set) == {Width(set) * m : m \in 1..MaxPageMul}
Requests == {b * BACKOFF + u * W256 : b \in 0..MaxBackoffSteps,
                                       u \in 0..MaxReqUnits}
\* a config entry's loops= value: absent, or 0 (skip the test)
LoopOverrides == {NoneLoops, 0}
ModelledKinds == {"BasicTests", "Checkerboard"}
EntryChoices == {[kind |-> k, loops |-> l] :
                   k \in ModelledKinds, l \in LoopOverrides}
EntryLists == UNION {[1..n -> EntryChoices] : n \in 1..MaxEntries}

InitRun ==
  /\ stop_signal = FALSE
  /\ pc = "start"
  /\ ram_bytes = 0 /\ alignment = 0 /\ acq_i = 0 /\ mem = "none" /\ size = 0
  /\ tried = <<>> /\ live = 0 /\ pinned = FALSE /\ ptr = NoPtr
  /\ IdleLoop /\ IdleKernel /\ IdleHist /\ IdleSmb /\ IdleRng(OneSeed)
  /\ buf = <<>>
  /\ ERRORS = 0 /\ log = NoLog /\ errSum = 0
  /\ seenStop = FALSE /\ afterSeen = FALSE /\ afterSet = 0
  /\ faults = 0

Init ==
  /\ isa \in ISAs
  /\ cpu_count \in 1..MaxCpus
  /\ pagesize \in PageSizes(isa)
  /\ req \in Requests
  /\ conf \in {FileOf(es) : es \in EntryLists}
  /\ avx512f = TRUE /\ platform = "unix" /\ os_raw = OneBase
  /\ memlock = MaxLockable
  /\ InitRun

Acquire ==
  \/ PrepareNoSimd \/ Prepare \/ AcqExhausted \/ AcqStopped \/ AcqZero
  \/ AcqAllocFail \/ AcqPinFail \/ AcqAccept \/ MemCheckNone

TestLoop ==
  \/ Bind \/ OuterStart \/ TestsDone \/ TestStop \/ TestBegin \/ LoopDone
  \/ LoopStop \/ LoopGo \/ InvokeKernel \/ AfterKernel \/ TestDone
  \/ OuterStop \/ OuterAgain

SweepStep ==
  \/ Dispatch \/ Join
  \/ \E i \in Workers : WorkerAccess(i)
  \/ \E i \in Workers : WorkerFinish(i)

Next == Acquire \/ TestLoop \/ SweepStep \/ SetStop \/ Restart

Spec == Init /\ [][Next]_vars

(***************************************************************************)
(* SpecAcq: the buffer acquisition alone, with the page size and the       *)
(* request sizes of a real host.                                           *)
(***************************************************************************)
\* requests in units of 100M, one of exactly one back-off step, one of one page
AcqRequests ==
  {u * AcqReqUnit : u \in 0..MaxAcqReqUnits} \cup {BACKOFF, RealPageSize}

InitAcq ==
  /\ isa \in ISAs
  /\ cpu_count \in 1..MaxCpus
  /\ pagesize = RealPageSize
  /\ req \in AcqRequests
  /\ conf = FileOf(<<[kind |-> "BasicTests", loops |-> NoneLoops]>>)
  /\ avx512f = TRUE /\ platform \in Platforms /\ os_raw \in RawBases
  /\ memlock = req
  /\ InitRun

NextAcq == Acquire \/ SetStop

SpecAcq == InitAcq /\ [][NextAcq]_vars

(***************************************************************************)
(* SpecSweep: the four sweep primitives on an accepted buffer whose size   *)
(* is a multiple of cpu_count * W, driven by the sequences                 *)
(* fill_x(v); verify_y(v) and fill_up(v); fill_up(~v); verify_up(~v).      *)
(***************************************************************************)
HarnessLanes == {Lane8(0), Lane8(170), Lane8(15)}

FillOf(dir, lane)   == IF dir = "up" THEN set_all_up(lane) ELSE set_all_down(lane)
VerifyOf(dir, lane) == IF dir = "up" THEN get_all_up(lane) ELSE get_all_down(lane)

HarnessPrograms ==
  {<<FillOf(x, v), VerifyOf(y, v)>> :
     x \in {"up", "down"}, y \in {"up", "down"}, v \in HarnessLanes}
  \cup
  {<<set_all_up(v), set_all_up(NotLane(v)), get_all_up(NotLane(v))>> :
     v \in HarnessLanes}

\* a buffer of cpu_count * W * k bytes, k in slots, no sweep dispatched yet
BufferOfSlots(slots) ==
  /\ isa \in {"AVX2", "AVX512"}
  /\ cpu_count \in 1..MaxCpus
  /\ pagesize = Width(isa)
  /\ \E k \in slots : size = cpu_count * Width(isa) * k
  /\ req = size /\ ram_bytes = size /\ memlock = size
  /\ alignment = cpu_count * pagesize
  /\ conf = NoFile
  /\ avx512f = TRUE /\ platform = "unix" /\ os_raw = OneBase
  /\ stop_signal = FALSE
  /\ acq_i = 0 /\ mem = "some"
  /\ tried = <<size>> /\ live = 1 /\ pinned = TRUE
  /\ ptr = aligned_alloc(platform, alignment, size, os_raw)
  /\ IdleLoop /\ IdleHist /\ IdleSmb /\ SeededRng(OneSeed)
  /\ sweep = 1
  /\ wst = [i \in Workers |-> "idle"]
  /\ wj = [i \in Workers |-> 0]
  /\ wsw = [i \in Workers |-> 0]
  /\ buf = FreshBuffer(size, Width(isa))
  /\ pc = "sweep"
  /\ ERRORS = 0 /\ log = NoLog /\ errSum = 0
  /\ seenStop = FALSE /\ afterSeen = FALSE /\ afterSet = 0
  /\ faults = 0

\* an accepted buffer: at least one vector per work item
OnAcceptedBuffer == BufferOfSlots(1..MaxChunkSlots)

InitSweep ==
  /\ OnAcceptedBuffer
  /\ prog \in {[kernel |-> "harness", sweeps |-> p] : p \in HarnessPrograms}

SpecSweep == InitSweep /\ [][SweepStep]_vars

(***************************************************************************)
(* SpecKernel: one invocation of a kernel of the catalog on an accepted    *)
(* buffer whose size is a multiple of cpu_count * W.                       *)
(***************************************************************************)
InitKernel ==
  /\ OnAcceptedBuffer
  /\ prog \in {[kernel |-> k, sweeps |-> <<>>] : k \in ModelledKinds}

SpecKernel == InitKernel /\ [][SweepStep]_vars

(***************************************************************************)
(* SpecCmp: one get of a vector that differs from the expected vector in a *)
(* chosen set of byte positions.                                           *)
(***************************************************************************)
\* the byte positions that differ: the first n bytes, or one single byte
DiffSets(w) == {1..n : n \in 0..w} \cup {{k} : k \in 1..w}

InitCmp ==
  /\ isa \in {"AVX2", "AVX512"}
  /\ cpu_count = 1
  /\ pagesize = Width(isa)
  /\ size = 2 * Width(isa)
  /\ req = size /\ ram_bytes = size /\ memlock = size
  /\ alignment = pagesize
  /\ conf = NoFile
  /\ avx512f = TRUE /\ platform = "unix" /\ os_raw = OneBase
  /\ stop_signal = FALSE
  /\ acq_i = 0 /\ mem = "some"
  /\ tried = <<size>> /\ live = 1 /\ pinned = TRUE
  /\ ptr = aligned_alloc(platform, alignment, size, os_raw)
  /\ IdleLoop /\ IdleHist /\ IdleSmb /\ SeededRng(OneSeed)
  /\ \E n \in 1..Len(BasicPatterns) :
       prog = [kernel |-> "harness",
               sweeps |-> <<get_all_up(Lane8(BasicPatterns[n]))>>]
  /\ sweep = 1
  /\ wst = [i \in Workers |-> "run"]
  /\ wj \in {[i \in Workers |-> 0], [i \in Workers |-> Width(isa)]}
  /\ wsw = [i \in Workers |-> 1]
  /\ \E d \in DiffSets(Width(isa)) :
       buf = [k \in 0..1 |->
                FlipBytes(VecOf(Sweeps(prog)[1].even, Width(isa)), d)]
  /\ pc = "cmp"
  /\ ERRORS = 0 /\ log = NoLog /\ errSum = 0
  /\ seenStop = FALSE /\ afterSeen = FALSE /\ afterSet = 0
  /\ faults = 0

CmpApply(r, idx) ==
  /\ acc' = [op |-> "get", idx |-> idx, w |-> W]
  /\ ERRORS' = IF r.inc > 0 THEN FetchAdd(ERRORS, r.inc) ELSE ERRORS
  /\ errSum' = errSum + r.inc
  /\ log' = IF r.line = NoLog THEN log ELSE r.line
  /\ UNCHANGED <<rngv, lines, smbv>>
  /\ UNCHANGED <<hw, stop_signal, acqv, loopv, kernv, buf, touched, dups,
                 unfenced, stopv, faults>>

\* get of manganese_core at offset wj[0]
CmpGet ==
  /\ pc = "cmp"
  /\ pc' = "cmp_done"
  /\ CmpApply(Get(isa, buf[wj[0] \div W], wj[0], PatternAt(CurSweep, wj[0], W)),
              wj[0])

\* get of the legacy CLI revision (wide-256 only) at offset wj[0]
CmpGetLegacy ==
  /\ pc = "cmp" /\ isa = "AVX2"
  /\ pc' = "cmp_done_legacy"
  /\ CmpApply(LegacyAvx2Get(buf[wj[0] \div W], wj[0],
                            PatternAt(CurSweep, wj[0], W)), wj[0])

NextCmp == CmpGet \/ CmpGetLegacy

SpecCmp == InitCmp /\ [][NextCmp]_vars

(***************************************************************************)
(* SpecFault: run_tests on defective RAM                                   *)
(***************************************************************************)
InitFault ==
  /\ isa \in ISAs
  /\ cpu_count \in 1..MaxFaultCpus
  /\ pagesize = Width(isa)
  /\ req \in {0, cpu_count * pagesize}
  /\ conf = FileOf(<<[kind |-> "Checkerboard", loops |-> 1],
                       [kind |-> "BasicTests", loops |-> 0]>>)
  /\ avx512f = TRUE /\ platform = "unix" /\ os_raw = OneBase
  /\ memlock = req
  /\ InitRun

NextFault == Next \/ InjectFault

SpecFault == InitFault /\ [][NextFault]_vars

(***************************************************************************)
(* SpecStop: run_tests on a buffer of one vector per CPU, the front end    *)
(* setting the stop flag at any point and calling run_tests again          *)
(***************************************************************************)
InitStop ==
  /\ isa \in ISAs
  /\ cpu_count \in 1..MaxStopCpus
  /\ pagesize = Width(isa)
  /\ req \in {0, cpu_count * pagesize}
  /\ conf \in {FileOf(es) : es \in EntryLists}
  /\ avx512f = TRUE /\ platform = "unix" /\ os_raw = OneBase
  /\ memlock = req
  /\ InitRun

SpecStop == InitStop /\ [][Next]_vars

(***************************************************************************)
(* SpecLive: run_tests under fair scheduling of the thread that runs it    *)
(* and of the pool's work items                                            *)
(***************************************************************************)
InitLive ==
  /\ isa \in {"SSE", "AVX2"}
  /\ cpu_count \in 1..MaxCpus
  /\ pagesize \in PageSizes(isa)
  /\ req \in {b * BACKOFF + u * W256 : b \in 0..MaxBackoffSteps, u \in {0, 4}}
  /\ conf \in {FileOf(<<[kind |-> "Checkerboard", loops |-> NoneLoops]>>),
               FileOf(<<[kind |-> "BasicTests", loops |-> NoneLoops],
                        [kind |-> "Checkerboard", loops |-> 0]>>)}
  /\ avx512f = TRUE /\ platform = "unix" /\ os_raw = OneBase
  /\ memlock = MaxLockable
  /\ InitRun

MainStep == Acquire \/ TestLoop \/ Dispatch \/ Join

WorkerStep(i) == i \in Workers /\ (WorkerAccess(i) \/ WorkerFinish(i))

NextLive == Acquire \/ TestLoop \/ SweepStep \/ SetStop

SpecLive ==
  /\ InitLive /\ [][NextLive]_vars
  /\ WF_vars(MainStep)
  /\ \A i \in 0..(MaxCpus - 1) : WF_vars(WorkerStep(i))

(***************************************************************************)
(* SpecBind: run_tests from the accepted buffer to the first kernel        *)
(* invocation, for configuration files that are absent, empty, well-formed *)
(* (up to MaxBindLen lines, repeats and loops= overrides included) or      *)
(* malformed.                                                              *)
(***************************************************************************)
BindKinds == {"BasicTests", "Checkerboard", "Walking1"}
BindLoops == {NoneLoops, 0, 3}
BindLists ==
  UNION {[1..n -> {[kind |-> k, loops |-> l] : k \in BindKinds, l \in BindLoops}]
           : n \in 1..MaxBindLen}

\* a line naming no test, a loops value that is no number, a negative loops
\* value, a token that is no loops=, a loops= in place of the test name
MalformedFiles ==
  {File(<<Line(<<Word("bogus")>>)>>),
   File(<<Line(<<Word("basic_tests"), LoopsTok(<<"x">>)>>)>>),
   File(<<Line(<<Word("basic_tests"), LoopsTok(<<"-", "1">>)>>)>>),
   File(<<Line(<<Word("basic_tests"), Word("passes=3")>>)>>),
   File(<<Line(<<Word("checkerboard")>>), Line(<<LoopsTok(<<"3">>)>>)>>)}

\* lines that end in a comment: "basic_tests loops=2 # twice",
\* "checkerboard #twice", and one after a whole-line comment
TrailingCommentFiles ==
  {File(<<Line(<<Word("basic_tests"), LoopsTok(<<"2">>), Word("#"),
              Word("twice")>>)>>),
   File(<<Line(<<Word("checkerboard"), Word("#twice")>>)>>),
   File(<<CommentLine,
          Line(<<Word("walking1"), Word("#"), LoopsTok(<<"3">>)>>)>>)}

BindFiles ==
  {FileOf(es) : es \in BindLists} \cup TrailingCommentFiles
    \cup {NoFile, File(<<>>), File(<<CommentLine, Line(<<>>)>>),
          File(<<CommentLine, Line(<<Word("walking0"), LoopsTok(<<"+", "2">>),
                                     LoopsTok(<<"1">>)>>)>>)}
    \cup MalformedFiles

InitBind ==
  /\ isa \in {"AVX2", "AVX512"}
  /\ cpu_count = 1
  /\ pagesize = Width(isa)
  /\ size = Width(isa)
  /\ req = size /\ ram_bytes = size /\ memlock = size
  /\ alignment = cpu_count * pagesize
  /\ conf \in BindFiles
  /\ avx512f = TRUE /\ platform = "unix" /\ os_raw = OneBase
  /\ stop_signal = FALSE
  /\ acq_i = 0 /\ mem = "some"
  /\ tried = <<size>> /\ live = 1 /\ pinned = TRUE
  /\ ptr = aligned_alloc(platform, alignment, size, os_raw)
  /\ IdleLoop /\ IdleKernel /\ IdleHist /\ IdleSmb /\ IdleRng(OneSeed)
  /\ buf = <<>>
  /\ pc = "mem_check"
  /\ ERRORS = 0 /\ log = NoLog /\ errSum = 0
  /\ seenStop = FALSE /\ afterSeen = FALSE /\ afterSet = 0
  /\ faults = 0

NextBind ==
  \/ Bind \/ OuterStart \/ TestBegin \/ LoopGo \/ LoopDone \/ TestDone
  \/ TestsDone \/ OuterAgain \/ InvokeKernel

SpecBind == InitBind /\ [][NextBind]_vars

(***************************************************************************)
(* SpecCount: one invocation of each of the 14 kernels of the catalog on a *)
(* one-vector buffer, by a build with or without the avx512f target        *)
(* feature, with at most one fault of the RAM during the invocation.       *)
(***************************************************************************)
InitCount ==
  /\ isa \in {"AVX2", "AVX512"}
  /\ avx512f \in BOOLEAN
  /\ platform = "unix" /\ os_raw = OneBase
  /\ cpu_count = 1
  /\ pagesize = Width(isa)
  /\ size = Width(isa)
  /\ req = size /\ ram_bytes = size /\ memlock = size
  /\ alignment = cpu_count * pagesize
  /\ \E k \in TestKinds :
       /\ conf = FileOf(<<[kind |-> k, loops |-> NoneLoops]>>)
       /\ entries = <<[kind |-> k, loops |-> NoneLoops]>>
       /\ test_config = <<DefsOf(isa)[k]>>
  /\ test_idx = 1 /\ loop_i = 1
  /\ lines = <<RunningLine(test_config[1], 1)>>
  /\ stop_signal = FALSE
  /\ acq_i = 0 /\ mem = "some"
  /\ tried = <<size>> /\ live = 1 /\ pinned = TRUE
  /\ ptr = aligned_alloc(platform, alignment, size, os_raw)
  /\ IdleKernel /\ IdleHist /\ IdleSmb /\ SeededRng(OneSeed)
  /\ buf = FreshBuffer(size, Width(isa))
  /\ pc = "invoke"
  /\ ERRORS = 0 /\ log = NoLog /\ errSum = 0
  /\ seenStop = FALSE /\ afterSeen = FALSE /\ afterSet = 0
  /\ faults = MaxFaults - 1

NextCount == InvokeKernel \/ SweepStep \/ InjectFault

SpecCount == InitCount /\ [][NextCount]_vars

(***************************************************************************)
(* SpecFill: one invocation of each of the 14 kernels on an accepted       *)
(* buffer of two vectors (one slot of each parity) in which no bit flips,  *)
(* on both ISAs and in both builds.                                        *)
(***************************************************************************)
InitFill ==
  /\ isa \in {"AVX2", "AVX512"}
  /\ avx512f \in BOOLEAN
  /\ platform = "unix" /\ os_raw = OneBase
  /\ cpu_count = 1
  /\ pagesize = Width(isa)
  /\ size = 2 * Width(isa)
  /\ req = size /\ ram_bytes = size /\ memlock = size
  /\ alignment = cpu_count * pagesize
  /\ \E k \in TestKinds :
       /\ conf = FileOf(<<[kind |-> k, loops |-> NoneLoops]>>)
       /\ entries = <<[kind |-> k, loops |-> NoneLoops]>>
       /\ test_config = <<DefsOf(isa)[k]>>
  /\ test_idx = 1 /\ loop_i = 1
  /\ lines = <<RunningLine(test_config[1], 1)>>
  /\ stop_signal = FALSE
  /\ acq_i = 0 /\ mem = "some"
  /\ tried = <<size>> /\ live = 1 /\ pinned = TRUE
  /\ ptr = aligned_alloc(platform, alignment, size, os_raw)
  /\ IdleKernel /\ IdleHist /\ IdleSmb /\ SeededRng(OneSeed)
  /\ buf = FreshBuffer(size, Width(isa))
  /\ pc = "invoke"
  /\ ERRORS = 0 /\ log = NoLog /\ errSum = 0
  /\ seenStop = FALSE /\ afterSeen = FALSE /\ afterSet = 0
  /\ faults = MaxFaults

NextFill == InvokeKernel \/ SweepStep

SpecFill == InitFill /\ [][NextFill]_vars

(***************************************************************************)
(* SpecLoop: the test loop of run_tests on an accepted one-vector buffer,  *)
(* for configuration files of 1..MaxLoopLen tests with loops absent, 0 or  *)
(* LoopCounts; the flag may be set at any time                             *)
(***************************************************************************)
LoopKinds == {"BasicTests", "Checkerboard"}
LoopCounts == {NoneLoops, 0, 3}
LoopLists ==
  UNION {[1..n -> {[kind |-> k, loops |-> l] : k \in LoopKinds, l \in LoopCounts}]
           : n \in 1..MaxLoopLen}

InitLoop ==
  /\ isa = "AVX2"
  /\ cpu_count = 1
  /\ pagesize = Width(isa)
  /\ size = Width(isa)
  /\ req = size /\ ram_bytes = size /\ memlock = size
  /\ alignment = cpu_count * pagesize
  /\ conf \in {FileOf(es) : es \in LoopLists}
  /\ avx512f = TRUE /\ platform = "unix" /\ os_raw = OneBase
  /\ stop_signal = FALSE
  /\ acq_i = 0 /\ mem = "some"
  /\ tried = <<size>> /\ live = 1 /\ pinned = TRUE
  /\ ptr = aligned_alloc(platform, alignment, size, os_raw)
  /\ IdleLoop /\ IdleKernel /\ IdleHist /\ IdleSmb /\ IdleRng(OneSeed)
  /\ buf = <<>>
  /\ pc = "mem_check"
  /\ ERRORS = 0 /\ log = NoLog /\ errSum = 0
  /\ seenStop = FALSE /\ afterSeen = FALSE /\ afterSet = 0
  /\ faults = 0

NextLoop == TestLoop \/ SweepStep \/ SetStop

SpecLoop == InitLoop /\ [][NextLoop]_vars

(***************************************************************************)
(* SpecOrder: the sweep primitives on buffers of cpu_count * W * k bytes,  *)
(* k in 0..MaxChunkSlots: chunks of 0, W, 2W, ... bytes                    *)
(***************************************************************************)
InitOrder ==
  /\ BufferOfSlots(0..MaxChunkSlots)
  /\ prog \in {[kernel |-> "harness", sweeps |-> p] : p \in HarnessPrograms}

SpecOrder == InitOrder /\ [][SweepStep]_vars

(***************************************************************************)
(* SpecRng: the generator on its own, seeded by *_tests_init with every    *)
(* pair of Seeds that is not both zero and called up to MaxCalls times     *)
(***************************************************************************)
\* the words tried as r1 and r2: 0, 1, the top bit, all ones, a mixed word
Seeds == {{}, {0}, {63}, Bits64, {0, 17, 40}}
SeedPairs == {r \in Seeds \X Seeds : ~(r[1] = {} /\ r[2] = {})}

InitRng ==
  /\ isa \in {"AVX2", "AVX512"}
  /\ cpu_count = 1
  /\ pagesize = Width(isa)
  /\ req = 0 /\ conf = NoFile /\ memlock = 0
  /\ avx512f = TRUE /\ platform = "unix" /\ os_raw = OneBase
  /\ stop_signal = FALSE
  /\ pc = "tests_init"
  /\ ram_bytes = 0 /\ alignment = 0 /\ acq_i = 0 /\ mem = "none" /\ size = 0
  /\ tried = <<>> /\ live = 0 /\ pinned = FALSE /\ ptr = NoPtr
  /\ IdleLoop /\ IdleKernel /\ IdleHist /\ IdleSmb
  /\ buf = <<>>
  /\ ERRORS = 0 /\ log = NoLog /\ errSum = 0
  /\ seenStop = FALSE /\ afterSeen = FALSE /\ afterSet = 0
  /\ faults = 0
  /\ \E r \in SeedPairs : IdleRng(r)

\* tests_init(cpu_count, &ERRORS, isa) on its own
TestsInit ==
  /\ pc = "tests_init"
  /\ RNG' = tests_init(isa, avx512f, rdrand, RNG)
  /\ ref' = [s0 |-> rdrand[1], s1 |-> rdrand[2]]
  /\ calls' = 0 /\ drawn' = NoDraw
  /\ pc' = "rng"
  /\ UNCHANGED <<hw, rdrand, stop_signal, acqv, loopv, kernv, buf, ERRORS, log,
                 hist, errSum, stopv, faults, lines, smbv>>

\* one call of avx_xorshift128plus(&mut RNG) / avx512_xorshift128plus
RngNext ==
  /\ pc = "rng"
  /\ calls < MaxCalls
  /\ RngCalls(1)
  /\ UNCHANGED <<hw, stop_signal, pc, acqv, loopv, kernv, buf, ERRORS, log,
                 hist, errSum, stopv, faults, lines>>

NextRng == TestsInit \/ RngNext

SpecRng == InitRng /\ [][NextRng]_vars

(***************************************************************************)
(* The SMBIOS structure walk (hardware.rs:419-454, 657-680, 737-790)       *)
(***************************************************************************)
\* the bytes the tables are made of: the end marker 0, the structure types
\* 2 (baseboard), 7 (cache) and 5 (a type no parser handles); as a length
\* byte 2 is shorter than a header, 5 a header and one field, 7 longer than
\* most tables; as a string index 2 is the second string
SmbBytes == {0, 2, 5, 7}

Tables == UNION {[1..n -> SmbBytes] : n \in 0..MaxTableLen}

\* the value of buf[i] (0-based); where i >= buf.len() the code either
\* panics (buf[i]) or reads 0 (buf.get(i).unwrap_or(&0))
ByteAt(b, i) == IF i < Len(b) THEN b[i + 1] ELSE 0

\* buf[i] panics
IndexOob(b, i) == i >= Len(b)

\* buf[a..e] panics
SliceOob(b, a, e) == a > e \/ e > Len(b)

NoNext == [some |-> FALSE, next |-> 0, oob |-> FALSE]

\* hardware.rs:422  while next < buf.len()
ScanContinueToEnd(next, len) == next < len

\* hardware.rs:422  while next + 1 < buf.len()
ScanContinue(next, len) == next + 1 < len

\* hardware.rs:422-427  the scan for the double zero; buf[next + 1] is read
\* only where buf[next] == 0 (&&)
RECURSIVE ScanFrom(_, _)
ScanFrom(b, next) ==
  IF ScanContinue(next, Len(b))
    THEN IF IndexOob(b, next) \/ (ByteAt(b, next) = 0 /\ IndexOob(b, next + 1))
           THEN [some |-> FALSE, next |-> 0, oob |-> TRUE]
         ELSE IF ByteAt(b, next) = 0 /\ ByteAt(b, next + 1) = 0
           THEN [some |-> TRUE, next |-> next + 2, oob |-> FALSE]
         ELSE ScanFrom(b, next + 1)
    ELSE NoNext

\* hardware.rs:419-429
smb_next_structure(b, offset) ==
  IF offset + 1 >= Len(b) THEN NoNext
  ELSE ScanFrom(b, offset + ByteAt(b, offset + 1))

\* buf[p..].iter().position(|&c| c == 0), as an index of buf; Len(b) is None
RECURSIVE FirstZero(_, _)
FirstZero(b, p) ==
  IF p >= Len(b) THEN Len(b)
  ELSE IF b[p + 1] = 0 THEN p
  ELSE FirstZero(b, p + 1)

NoString == [some |-> FALSE, from |-> 0, to |-> 0, oob |-> FALSE]

\* hardware.rs:438-452  the loop of get_smbios_string
RECURSIVE StringFrom(_, _, _, _)
StringFrom(b, p, cur, index) ==
  IF p < Len(b)
    THEN LET end == FirstZero(b, p)
         IN  IF SliceOob(b, p, Len(b)) THEN [NoString EXCEPT !.oob = TRUE]
             ELSE IF end = Len(b) THEN NoString
             ELSE IF cur = index
               THEN [some |-> TRUE, from |-> p, to |-> end,
                     oob |-> SliceOob(b, p, end)]
             ELSE IF end + 1 < Len(b) /\ ByteAt(b, end + 1) = 0 THEN NoString
             ELSE StringFrom(b, end + 1, IF cur < 255 THEN cur + 1 ELSE 255,
                             index)
    ELSE NoString

\* hardware.rs:432-454
get_smbios_string(b, struct_start, index) ==
  IF index = 0 THEN NoString
  ELSE IF struct_start + 1 >= Len(b) THEN NoString
  ELSE IF struct_start + ByteAt(b, struct_start + 1) >= Len(b) THEN NoString
  ELSE StringFrom(b, struct_start + ByteAt(b, struct_start + 1), 1, index)

\* hardware.rs:460-473  the four strings of the baseboard structure
parse_type2_board(b, offset) ==
  IF offset + 1 >= Len(b) \/ offset + ByteAt(b, offset + 1) > Len(b)
    THEN [some |-> FALSE, oob |-> FALSE]
  ELSE [some |-> TRUE,
        oob |-> \E f \in 4..7 :
                  get_smbios_string(b, offset, ByteAt(b, offset + f)).oob]

\* the walk that follows the one that ended: build_cache_map, then the loop
\* of collect_system_info
AfterWalk(w) ==
  IF w.phase = "cache_map"
    THEN [w EXCEPT !.phase = "walk", !.offset = 0, !.iters = 0]
    ELSE [w EXCEPT !.phase = "done"]

\* hardware.rs:661-678, 749-789  one evaluation of the loop condition and,
\* where it holds, of the body
WalkIteration(b, w) ==
  IF w.offset + 4 <= Len(b)
    THEN IF IndexOob(b, w.offset) \/ IndexOob(b, w.offset + 1)
           THEN [w EXCEPT !.phase = "panicked", !.oob = TRUE]
         ELSE IF ByteAt(b, w.offset + 1) = 0 THEN AfterWalk(w)
         ELSE IF w.offset + ByteAt(b, w.offset + 1) > Len(b) THEN AfterWalk(w)
         ELSE LET due == w.phase = "walk" /\ ByteAt(b, w.offset) = 2
                         /\ ~w.board
                  brd == IF due THEN parse_type2_board(b, w.offset)
                         ELSE [some |-> FALSE, oob |-> FALSE]
                  nxt == smb_next_structure(b, w.offset)
              IN  IF brd.oob \/ nxt.oob
                    THEN [w EXCEPT !.phase = "panicked", !.oob = TRUE]
                  ELSE IF nxt.some
                    THEN [w EXCEPT !.offset = nxt.next, !.iters = @ + 1,
                                   !.board = @ \/ brd.some]
                  ELSE AfterWalk([w EXCEPT !.board = @ \/ brd.some])
    ELSE AfterWalk(w)

InitSmb ==
  /\ isa = "AVX2" /\ cpu_count = 1 /\ pagesize = Width(isa)
  /\ req = 0 /\ conf = NoFile /\ memlock = 0
  /\ avx512f = TRUE /\ platform = "unix" /\ os_raw = OneBase
  /\ stop_signal = FALSE
  /\ pc = "collect"
  /\ ram_bytes = 0 /\ alignment = 0 /\ acq_i = 0 /\ mem = "none" /\ size = 0
  /\ tried = <<>> /\ live = 0 /\ pinned = FALSE /\ ptr = NoPtr
  /\ IdleLoop /\ IdleKernel /\ IdleHist /\ IdleRng(OneSeed)
  /\ buf = <<>>
  /\ ERRORS = 0 /\ log = NoLog /\ errSum = 0
  /\ seenStop = FALSE /\ afterSeen = FALSE /\ afterSet = 0
  /\ faults = 0
  /\ table \in Tables
  /\ walk = NoWalk

\* hardware.rs:737-745  load_smbios_table returns None in place of an empty
\* table, and collect_system_info returns at once
SmbLoad ==
  /\ pc = "collect" /\ walk.phase = "idle"
  /\ walk' = IF table = <<>> THEN [walk EXCEPT !.phase = "done"]
             ELSE [walk EXCEPT !.phase = "cache_map"]
  /\ UNCHANGED <<hw, stop_signal, pc, acqv, loopv, kernv, buf, ERRORS, log,
                 hist, errSum, stopv, faults, rngv, lines, table>>

\* one iteration of build_cache_map's loop or of collect_system_info's
SmbStep ==
  /\ pc = "collect" /\ walk.phase \in {"cache_map", "walk"}
  /\ walk' = WalkIteration(table, walk)
  /\ UNCHANGED <<hw, stop_signal, pc, acqv, loopv, kernv, buf, ERRORS, log,
                 hist, errSum, stopv, faults, rngv, lines, table>>

NextSmb == SmbLoad \/ SmbStep

SpecSmb == InitSmb /\ [][NextSmb]_vars

(***************************************************************************)
(* Properties                                                              *)
(***************************************************************************)
\* the positions of run_tests inside the test loop (lib.rs:156-212)
LoopPcs == {"outer", "test_check", "loop_check", "invoke", "sweep", "join",
            "after_kernel", "test_done", "outer_end"}

\* every slot of the buffer holds the vector sweep sw stores there
BufferHolds(sw) ==
  \A k \in DOMAIN buf : buf[k] = PatternAt(sw, k * W, W)

\* the offsets accessed in the sweep in progress
TouchedOffsets == {t[1] : t \in touched}

\* C1 (as stated): every vector load or store of a sweep is at an offset idx
\* of the accepted buffer with idx % W = 0 and 0 <= idx <= size - W, for
\* every request, every cpu_count, every page size and every number of
\* failed attempts before the accepted one.
C1_AccessesAlignedInBounds ==
  acc.op # "none" =>
    /\ acc.idx % acc.w = 0
    /\ 0 <= acc.idx
    /\ acc.idx <= size - acc.w

\* C2 (as stated): the accepted size is a multiple of cpu_count * page_size,
\* so chunk = size / cpu_count is an exact division and a whole number of
\* vectors, also after 256 MiB back-off steps.
C2_AcceptedSizeMultiple ==
  mem = "some" =>
    /\ size % (cpu_count * pagesize) = 0
    /\ size % cpu_count = 0
    /\ chunk_size(size, cpu_count) % Width(isa) = 0

\* C3: in a sweep over a buffer whose size is a multiple of cpu_count * W,
\* no offset is accessed twice, every access of worker i is W-aligned and
\* inside [i*chunk, (i+1)*chunk), and when all workers have finished the
\* accessed offsets are exactly {k*W : 0 <= k < size/W}.
C3_EachSlotOnceByOwner ==
  /\ ~dups
  /\ \A t \in touched :
       /\ t[1] % W = 0
       /\ t[2] * Chunk <= t[1]
       /\ t[1] < (t[2] + 1) * Chunk
  /\ (pc = "join" /\ \A i \in Workers : wst[i] = "done") =>
       TouchedOffsets = {k * W : k \in 0..((size \div W) - 1)}

\* C3 witness: a down sweep of three workers with two slots each has
\* completed, all six slots accessed.
C3_Witness ==
  /\ pc = "join" /\ \A i \in Workers : wst[i] = "done"
  /\ cpu_count = 3 /\ CurSweep.dir = "down"
  /\ Cardinality(touched) = 6

\* C4: sweeps never overlap: a work item that is still running belongs to
\* the sweep in progress, and while the kernel is between two sweeps (or has
\* returned) no work item is running.
C4_SweepsNeverOverlap ==
  /\ \A i \in Workers : wst[i] = "run" => (wsw[i] = sweep /\ pc \in {"join", "crashed"})
  /\ pc \in {"sweep", "after_kernel"} => \A i \in Workers : wst[i] # "run"

\* C4 witness: with several workers, a fill sweep has been joined and the
\* verify sweep after it is about to be dispatched.
C4_Witness ==
  /\ pc = "sweep" /\ sweep = 2 /\ cpu_count >= 2
  /\ CurSweep.op = "get" /\ acc.op = "set"
  /\ \A i \in Workers : wst[i] = "idle"

\* C5: on a fault-free buffer whose size is a multiple of cpu_count * W,
\* fill_x(v); verify_y(v) and fill_up(v); fill_up(~v); verify_up(~v) leave
\* the error counter at its value (nothing logged) and the buffer holding
\* what the last fill stored, for both widths and all direction pairs.
C5_FillThenVerifyClean ==
  /\ ERRORS = 0 /\ log = NoLog
  /\ (pc \in {"sweep", "join", "after_kernel"} /\ CurSweep.op = "get") =>
       BufferHolds(CurSweep)

\* C5 witness: fill_up(v); fill_up(~v); verify_up(~v) has completed on the
\* wide-512 path with several workers, every slot verified.
C5_Witness ==
  /\ pc = "after_kernel" /\ isa = "AVX512" /\ cpu_count >= 2
  /\ Len(Sweeps(prog)) = 3 /\ acc.op = "get"
  /\ Cardinality(touched) = size \div W

\* the byte positions at which the compared slot differs from the vector
\* the get expected
Differing ==
  DiffBytes(buf[acc.idx \div W], PatternAt(CurSweep, acc.idx, W), W)

\* C6 (as stated): on the wide-256 path a get of a vector with at least one
\* differing byte (1..32 of them) adds exactly 1 to the error counter and
\* logs a line with the vector's offset; a get of an equal vector adds
\* nothing and logs nothing.  Both revisions of get are held to it.
C6_Wide256GetReportsAnyDiff ==
  (isa = "AVX2" /\ pc \in {"cmp_done", "cmp_done_legacy"}) =>
    /\ Differing # {} => (ERRORS = 1 /\ log # NoLog /\ log.idx = acc.idx)
    /\ Differing = {} => (ERRORS = 0 /\ log = NoLog)

\* C7: on the wide-512 path a get adds to the error counter exactly the
\* number of differing byte positions, and logs a line, carrying the offset
\* and the mismatch mask, if and only if that number is not zero.
C7_Wide512GetCountsBytes ==
  (isa = "AVX512" /\ pc = "cmp_done") =>
    /\ ERRORS = Cardinality(Differing)
    /\ (log # NoLog) <=> (Differing # {})
    /\ Differing # {} => (log.idx = acc.idx /\ log.mask = Differing)

\* C7 witness: a wide-512 get at offset 64 of a vector with three differing
\* bytes has added 3 and logged the mask.
C7_Witness ==
  /\ isa = "AVX512" /\ pc = "cmp_done" /\ acc.idx = 64
  /\ Cardinality(Differing) = 3 /\ ERRORS = 3 /\ log # NoLog

\* C8: the error counter always equals the sum of the increments requested
\* by the workers, and no step decreases it: not a concurrent fetch-add, not
\* the run loop, not a new call of run_tests.
C8_CounterIsSumOfIncrements ==
  /\ [](ERRORS = errSum)
  /\ [][ERRORS' >= ERRORS]_vars

\* C8 witness: with several workers, errors were counted at least twice, the
\* run was stopped and run_tests has been called again.
C8_Witness ==
  /\ pc = "start" /\ cpu_count >= 2 /\ faults = MaxFaults
  /\ ERRORS >= 2 /\ log # NoLog

\* C9: no kernel invocation starts after a stop check of the run has read
\* the flag as set, and at most one starts after the flag was set.
C9_NoKernelAfterStopSeen ==
  /\ ~afterSeen
  /\ afterSet <= 1

\* C9 witness: the flag was set between a passed check and the kernel
\* invocation after it; that one kernel ran, the next check read the flag
\* and run_tests returned.
C9_Witness ==
  /\ afterSet = 1 /\ seenStop /\ pc = "returned"

\* C10 (as stated): once the stop flag is set while run_tests is in the test
\* loop, run_tests eventually returns (fair scheduling of the thread and of
\* the work items); and run_tests returns only if the flag was set.
C10_StopLeadsToReturn ==
  /\ (stop_signal /\ pc \in LoopPcs) ~> (pc = "returned")
  /\ [](pc = "returned" => stop_signal)

\* C11: for a non-empty entry list on a wide ISA the bound list has the same
\* length, its k-th element is the catalog definition of the k-th entry's
\* kind (same name, passes, iters, kernel) with loops equal to the override
\* when one is given and to the catalog's loops otherwise; order and repeats
\* are kept.
C11_BinderKeepsUserList ==
  (pc \in LoopPcs /\ entries # <<>>) =>
     /\ Len(test_config) = Len(entries)
     /\ \A k \in 1..Len(entries) :
          LET def == DefsOf(isa)[entries[k].kind]
              t   == test_config[k]
          IN  /\ t.name = def.name /\ t.passes = def.passes
              /\ t.iters = def.iters /\ t.run = def.run
              /\ t.loops = IF entries[k].loops = NoneLoops THEN def.loops
                                                         ELSE entries[k].loops

\* C11 witness: a two-line file naming the same test twice, the second line
\* with loops=3, has been bound
C11_Witness ==
  /\ pc = "outer" /\ Len(entries) = 2
  /\ entries[1].kind = entries[2].kind
  /\ entries[1].loops = NoneLoops /\ entries[2].loops = 3
  /\ test_config[2].loops = 3 /\ test_config[1].loops = DefsOf(isa)[entries[1].kind].loops

\* C12: for an empty entry list on a wide ISA the bound list holds all 14
\* catalog definitions, each once with its catalog loops, in strictly
\* ascending byte order of name, whatever order the hash map iterates in.
C12_DefaultIsCatalogSortedByName ==
  (pc \in LoopPcs /\ entries = <<>>) =>
     /\ Len(test_config) = 14
     /\ \A k \in TestKinds :
          Cardinality({n \in 1..Len(test_config) :
                         test_config[n] = DefsOf(isa)[k]}) = 1
     /\ \A n \in 1..(Len(test_config) - 1) :
          LexLess(NameBytes(test_config[n].name),
                  NameBytes(test_config[n + 1].name))
     /\ \A order \in HashOrders :
          build_tests_from_config(entries, isa, order) = test_config

\* C12 witness: the defaults were bound and start with anti_patterns
C12_Witness ==
  /\ pc = "outer" /\ entries = <<>> /\ Len(test_config) = 14
  /\ test_config[1].name = "anti_patterns" /\ test_config[14].name = "walking1"

\* the file exists and load_custom_config returns Err for it
Malformed(file) == file.exists /\ ~load_custom_config(file).ok

\* C15: when manganese.conf exists and has a malformed line, run_tests binds
\* no selection and invokes no kernel.
C15_MalformedConfigRunsNothing ==
  Malformed(conf) => (pc \in {"mem_check", "exited"} /\ prog.kernel = "none")

C14_AcceptedBufferIsLocked ==
  mem = "some" => pinned

\* C17: when run_tests has returned because the stop flag was set, no
\* allocation made by the call is still live.
C17_BufferReleasedOnReturn ==
  pc = "returned" => live = 0

\* the canonical table of passes / iters / loops per test name
CanonicalTable ==
  {<<"basic_tests", 4, 6, 1>>,
   <<"random_inversions", 4, 16, 1>>,
   <<"moving_inversions_left_64", 4, 64, 1>>,
   <<"moving_inversions_right_32", 4, 32, 1>>,
   <<"moving_inversions_left_16", 4, 16, 1>>,
   <<"moving_inversions_right_8", 4, 8, 1>>,
   <<"moving_inversions_left_4", 4, 4, 1>>,
   <<"moving_saturations_right_16", 8, 16, 1>>,
   <<"moving_saturations_left_8", 8, 8, 1>>,
   <<"walking1", 4, 64, 1>>,
   <<"walking0", 4, 64, 1>>,
   <<"checkerboard", 4, 1, 8>>,
   <<"anti_patterns", 8, 34, 1>>,
   <<"inverse_data_patterns", 4, 14, 1>>}

\* C18: both catalogs have exactly the 14 TestKind keys; for each key the
\* two ISAs agree on name, passes, iters and loops, and these are a row of
\* the canonical table; names are pairwise distinct; TestKind::parse of a
\* definition's name is the key it is stored under, also for every
\* definition bound from a file.
C18_CatalogsCanonicalAndBijective ==
  /\ Cardinality(TestKinds) = 14
  /\ Cardinality(CanonicalTable) = 14
  /\ \A set \in {"AVX2", "AVX512"} :
       /\ DefsKeys(set) = TestKinds /\ DOMAIN DefsOf(set) = TestKinds
       /\ \A k \in TestKinds :
            LET def == DefsOf(set)[k]
            IN  /\ <<def.name, def.passes, def.iters, def.loops>> \in CanonicalTable
                /\ parse(def.name) = k
                /\ def.name = avx2_definitions[k].name
                /\ def.passes = avx2_definitions[k].passes
                /\ def.iters = avx2_definitions[k].iters
                /\ def.loops = avx2_definitions[k].loops
       /\ \A j, k \in TestKinds :
            DefsOf(set)[j].name = DefsOf(set)[k].name => j = k
  /\ \A t \in DefNames : parse(t) \in TestKinds
  /\ (pc \in LoopPcs /\ entries # <<>>) =>
       \A n \in 1..Len(test_config) : parse(test_config[n].name) = entries[n].kind

\* C18 witness: on wide-512 a file naming walking1 and checkerboard was
\* parsed and bound
C18_Witness ==
  /\ pc = "outer" /\ isa = "AVX512" /\ Len(entries) = 2
  /\ test_config[1].name = "walking1" /\ entries[1].kind = "Walking1"
  /\ test_config[2].name = "checkerboard" /\ test_config[2].loops = 8

\* C16: no verify load is issued on a slot while a non-temporal store to it
\* has not been followed by a store fence of the thread that stored.
C16_StoreFenceBeforeVerify ==
  acc.op = "get" => (acc.idx \div acc.w) \notin unfenced

\* C19: one invocation of each of the 14 kernels, on both ISAs, performs
\* exactly passes * iters sweeps, whatever miscompares occur.
C19_SweepsArePassesTimesIters ==
  pc = "after_kernel" =>
    sweep = test_config[test_idx].passes * test_config[test_idx].iters

\* the pattern and the position of sweep s in moving_saturations_left_8
\* as stated: iteration k = (s - 1) \div 8 uses the splat of 0x01 << k (as
\* 8-bit or as 16-bit elements)
Left8Stated(s) ==
  LET k == (s - 1) \div 8
      j == (s - 1) % 8
      ps == {Lane8(2 ^ k), LaneOfBits(Set1Epi16({k}))}
  IN  {Sw(IF j % 2 = 0 THEN "set" ELSE "get", "up", p, p) :
         p \in IF j \in {2, 3} THEN {Lane8(0)}
               ELSE IF j \in {6, 7} THEN {Lane8(255)} ELSE ps}

\* C20: in moving_saturations_left_8 iteration k fills and verifies the
\* splat of 0x01 << k in the order fill_up(p); verify_up(p); fill_up(0);
\* verify_up(0); fill_up(p); verify_up(p); fill_up(~0); verify_up(~0).
C20_Left8UsesShiftedBit ==
  (prog.kernel = "MovingSaturationsLeft8" /\ pc \in {"sweep", "join"}) =>
     CurSweep \in Left8Stated(sweep)

\* C21: for every seed pair that is not both zero and every number n of
\* calls, the n-th value the vectorized generator returns in lane 0 equals
\* the n-th output of the scalar generator started from the same seed, and
\* the lane-0 state after n calls equals the scalar state after n steps.
C21_Lane0FollowsScalar ==
  pc = "rng" =>
    /\ RNG.part1[1] = ref.s0 /\ RNG.part2[1] = ref.s1
    /\ drawn.lane0 = drawn.ref

\* C29: for every seed pair accepted by tests_init (not both zero, one
\* component may be zero) and every number of calls, the lane-0 state
\* (part1, part2) of the generator never becomes (0, 0).
C29_Lane0StateNeverZero ==
  pc = "rng" => ~(RNG.part1[1] = {} /\ RNG.part2[1] = {})

\* the kernel invocations among the lines, in order
RunLines == SelectSeq(lines, LAMBDA l : l.line = "run")

\* the invocations of the first n tests of the list, each test's i = 1..loops
RECURSIVE ListedRuns(_, _)
ListedRuns(tests, n) ==
  IF n = 0 THEN <<>>
  ELSE ListedRuns(tests, n - 1)
       \o [i \in 1..tests[n].loops |-> [line |-> "run", test |-> n, i |-> i]]

IsPrefix(a, b) == Len(a) <= Len(b) /\ SubSeq(b, 1, Len(a)) = a

\* the outer iteration has run to its summary line
IterationDone ==
  Len(lines) > 0 /\ lines[Len(lines)].line = "Tests completed"

\* C22: within one outer iteration with the stop flag clear the tests are
\* processed in list order, one kernel invocation at a time, each test's
\* kernel exactly loops times; a test with loops = 0 is reported as
\* Skipping, is never invoked and adds 0 to the sum of passes * iters *
\* loops of the iteration's bandwidth.
C22_TestsRunInOrderLoopsTimes ==
  /\ (pc \in LoopPcs /\ ~stop_signal) =>
       /\ IsPrefix(RunLines, ListedRuns(test_config, Len(test_config)))
       /\ pc \in {"sweep", "join", "after_kernel"} =>
            /\ Len(RunLines) > 0
            /\ RunLines[Len(RunLines)] =
                 [line |-> "run", test |-> test_idx, i |-> loop_i]
  /\ IterationDone =>
       /\ RunLines = ListedRuns(test_config, Len(test_config))
       /\ \A t \in 1..Len(test_config) :
            test_config[t].loops = 0 =>
              /\ \E k \in 1..Len(lines) :
                   lines[k] = [line |-> "Skipping", test |-> t]
              /\ \A k \in 1..Len(lines) :
                   (lines[k].line = "run" => lines[k].test # t)
                   /\ (lines[k].line = "completed" /\ lines[k].test = t
                         => lines[k].passes = 0)
       /\ lines[Len(lines)].passes =
            total_passes(SelectSeq(test_config, LAMBDA t : t.loops # 0))

\* C22 witness: an iteration of two tests has ended with the flag clear, the
\* first test skipped (loops = 0) and the second invoked three times.
C22_Witness ==
  /\ IterationDone /\ Len(test_config) = 2
  /\ test_config[1].loops = 0 /\ test_config[2].loops = 3
  /\ Len(RunLines) = 3

\* invocation i of n is followed by an estimate under the rule
Due(rule, i, n) == IF rule = "beyond the first" THEN i >= 2 ELSE i < n

\* the estimate lines sit where the rule says: the line after invocation i
\* is that invocation's estimate exactly when Due, and an invocation whose
\* line is the last one is in progress or has no estimate due
EstimatesWhere(rule) ==
  \A k \in 1..Len(lines) :
    /\ lines[k].line = "run" =>
         LET n == test_config[lines[k].test].loops
         IN  n > 1 =>
               IF k < Len(lines)
                 THEN (lines[k + 1].line = "estimate") = Due(rule, lines[k].i, n)
                 ELSE pc \in {"sweep", "join", "after_kernel", "crashed"}
                      \/ ~Due(rule, lines[k].i, n)
    /\ lines[k].line = "estimate" =>
         /\ k > 1
         /\ lines[k - 1] = [line |-> "run", test |-> lines[k].test,
                             i |-> lines[k].i]

\* C23: for a test with loops = N > 1 the run loop emits a running
\* bandwidth estimate after each kernel invocation beyond the first: after
\* invocations 2, 3, ..., N and not after invocation 1.
C23_EstimateAfterAllButFirst == EstimatesWhere("beyond the first")

\* C23 as amended: for a test with loops = N > 1 the run loop emits a
\* running bandwidth estimate after each kernel invocation except the last:
\* after invocations 1, 2, ..., N - 1 and not after invocation N.
C23_EstimateAfterAllButLast == EstimatesWhere("except the last")

\* C23 witness: a test with loops = 3 is complete; its invocations 1 and 2
\* are each followed by their estimate, invocation 3 by the completed line.
C23_Witness ==
  \E k \in 1..Len(lines) :
    /\ k + 5 <= Len(lines)
    /\ lines[k].line = "run" /\ lines[k].i = 1
    /\ lines[k + 1].line = "estimate" /\ lines[k + 1].i = 1
    /\ lines[k + 3].line = "estimate" /\ lines[k + 3].i = 2
    /\ lines[k + 4].line = "run" /\ lines[k + 4].i = 3
    /\ lines[k + 5].line = "completed"

\* the token begins with '#'
BeginsComment(t) == t.pre = "" /\ t.word \in {"#", "#twice"}

\* the tokens of a line in front of its first '#'
RECURSIVE BeforeHash(_)
BeforeHash(ts) ==
  IF ts = <<>> \/ BeginsComment(Head(ts)) THEN <<>>
  ELSE <<Head(ts)>> \o BeforeHash(Tail(ts))

\* the file with every comment removed
WithoutComments(file) ==
  [file EXCEPT !.lines =
     [n \in 1..Len(file.lines) |->
        IF file.lines[n].comment THEN Line(<<>>)
        ELSE Line(BeforeHash(file.lines[n].tokens))]]

C25_AlignedAllocIsAligned ==
  (ptr # NoPtr /\ pc \in {"acq", "mem_check"} /\ Len(tried) > 0) =>
    /\ ptr.addr % alignment = 0
    /\ ptr.raw <= ptr.addr
    /\ ptr.addr + tried[Len(tried)] <= ptr.raw + ptr.len
    /\ platform = "windows" => ptr.addr < ptr.raw + alignment

\* the offsets work item i has accessed in the sweep in progress
OffsetsOf(i) == {t[1] : t \in {u \in touched : u[2] = i}}

\* the step is an access of work item i
AccessBy(i) == wst[i] = "run" /\ wj'[i] # wj[i]

\* C26: within one work item's chunk (a multiple of W) an _up sweep
\* accesses the offsets 0, W, ..., chunk - W in strictly ascending order and
\* a _down sweep the same offsets in strictly descending order, from
\* (chunk / W) * W - W down to 0; a chunk shorter than W is not accessed at
\* all, and the index of the down loop never goes below the chunk's start.
C26_ChunkOrder ==
  /\ [][\A i \in Workers :
          AccessBy(i) =>
            LET start == i * Chunk
                idx   == acc'.idx
                n     == Cardinality(OffsetsOf(i))
            IN  /\ ~dups'
                /\ Chunk >= W
                /\ IF Sweeps(prog)[wsw[i]].dir = "up"
                     THEN /\ idx = start + n * W
                          /\ \A o \in OffsetsOf(i) : o < idx
                     ELSE /\ idx = start + (Chunk \div W) * W - W - n * W
                          /\ \A o \in OffsetsOf(i) : o > idx]_vars
  /\ [](\A i \in Workers :
          /\ wst[i] \in {"run", "done"} => wj[i] >= 0
          /\ (wst[i] \in {"run", "done"}
               /\ Sweeps(prog)[wsw[i]].dir = "down") => wj[i] >= i * Chunk
          /\ wst[i] = "done" =>
               OffsetsOf(i) = {i * Chunk + k * W : k \in 0..((Chunk \div W) - 1)})

\* C26 witness: a work item has completed a down sweep over a chunk of two
\* vectors, the last access being the one at the chunk's start.
C26_Witness ==
  \E i \in Workers :
    /\ wst[i] = "done" /\ Sweeps(prog)[wsw[i]].dir = "down"
    /\ Chunk = 2 * W /\ Cardinality(OffsetsOf(i)) = 2
    /\ i > 0 /\ wj[i] = i * Chunk

RECURSIVE LastFill(_, _)
LastFill(sws, n) ==
  IF n = 0 THEN 0
  ELSE IF sws[n].op = "set" THEN n
  ELSE LastFill(sws, n - 1)

\* C27: in every one of the 14 kernels each verify sweep expects at every
\* slot the value the preceding fill sweep of the same invocation stored
\* there, and the buffer holds it when the verify sweep begins; on a buffer
\* in which no bit flips an invocation adds 0 to the error counter; on return
\* every slot holds the value of the kernel's last fill; in walking1 every
\* slot holds the splat of ~(1 << k) after iteration k.
C27_VerifyExpectsLastFill ==
  LET sws == Sweeps(prog)
  IN  /\ ERRORS = 0 /\ errSum = 0
      /\ (pc \in {"sweep", "join"} /\ sws[sweep].op = "get") =>
            LET f == LastFill(sws, sweep)
            IN  /\ f > 0
                /\ sws[f].odd = sws[sweep].odd /\ sws[f].even = sws[sweep].even
                /\ BufferHolds(sws[f])
      /\ pc = "after_kernel" =>
            /\ LastFill(sws, Len(sws)) > 0
            /\ BufferHolds(sws[LastFill(sws, Len(sws))])
      /\ \A k \in 0..63 :
            (/\ test_config[test_idx].run = "Walking1"
             /\ \/ pc = "sweep" /\ sweep = 4 * (k + 1) + 1
                \/ pc = "after_kernel" /\ k = 63)
            => \A slot \in DOMAIN buf :
                  buf[slot] = VecOf(LaneOfBits(Bits64 \ {k}), W)

\* C30: when the stop flag is read as set during buffer acquisition, before
\* any size has been accepted, run_tests makes no further allocation or pin
\* attempt, binds no selection and invokes no kernel, and ends by the fatal
\* exit of NoMemoryPinned instead of returning; no allocation of the call is
\* live on this path.
C30_StopDuringAcquisitionIsFatal ==
  /\ []((seenStop /\ mem = "none") =>
          /\ pc \in {"mem_check", "exited"}
          /\ live = 0
          /\ prog.kernel = "none" /\ test_config = <<>> /\ ~afterSeen
          /\ pc = "mem_check" =>
               (ENABLED MemCheckNone /\ ~ENABLED Bind /\ ~ENABLED AcqAccept
                /\ ~ENABLED AcqPinFail /\ ~ENABLED AcqAllocFail))
  /\ [][(pc = "acq" /\ InAcqRange /\ stop_signal) =>
          /\ tried' = tried /\ live' = live /\ mem' = mem
          /\ pc' \in {"acq", "mem_check"}
          /\ pc' = "mem_check" => seenStop']_vars

\* C30: the first attempt's pin failed and its buffer was freed, the flag was
\* then read as set, and the process has exited with one size tried
C30_Witness ==
  /\ pc = "exited" /\ seenStop /\ mem = "none"
  /\ Len(tried) = 1 /\ live = 0 /\ req >= 2 * BACKOFF

====
